---------------------------- MODULE Spec2Model ----------------------------
(***************************************************************************)
(* A model of the GraphQL -> OpenAPI conversion engine (package converter).  *)
(*                                                                           *)
(* Strings are sequences of tokens.  Every identifier (type, field and       *)
(* argument names, plural suffixes, CRUD prefixes) and every path is spelled *)
(* one character per token, so that prefix, suffix, case and concatenation   *)
(* operations act on it exactly as the Go string operations do.  Fixed       *)
(* literal text that the code only concatenates (summaries, descriptions)    *)
(* is kept as one token per literal.                                         *)
(*                                                                           *)
(* An optional (pointer) value is <<>> for nil and <<v>> for a value.        *)
(***************************************************************************)
EXTENDS Integers, Sequences, FiniteSets, TLC

Nil == <<>>
Some(v) == <<v>>

(***************************************************************************)
(* strings                                                                 *)
(***************************************************************************)
Lowers == <<"a","b","c","d","e","f","g","h","i","j","k","l","m",
            "n","o","p","q","r","s","t","u","v","w","x","y","z">>
Uppers == <<"A","B","C","D","E","F","G","H","I","J","K","L","M",
            "N","O","P","Q","R","S","T","U","V","W","X","Y","Z">>

ToUpperChar(ch) ==
    IF \E i \in DOMAIN Lowers : Lowers[i] = ch
    THEN Uppers[CHOOSE i \in DOMAIN Lowers : Lowers[i] = ch]
    ELSE ch

ToLowerChar(ch) ==
    IF \E i \in DOMAIN Uppers : Uppers[i] = ch
    THEN Lowers[CHOOSE i \in DOMAIN Uppers : Uppers[i] = ch]
    ELSE ch

\* strings.ToLower
ToLower(s) == [i \in DOMAIN s |-> ToLowerChar(s[i])]

\* strings.HasPrefix / strings.HasSuffix / strings.TrimPrefix / strings.TrimSuffix
HasPrefix(s, p) == Len(p) <= Len(s) /\ SubSeq(s, 1, Len(p)) = p
HasSuffix(s, x) == Len(x) <= Len(s) /\ SubSeq(s, Len(s) - Len(x) + 1, Len(s)) = x
TrimPrefix(s, p) == IF HasPrefix(s, p) THEN SubSeq(s, Len(p) + 1, Len(s)) ELSE s
TrimSuffix(s, x) == IF HasSuffix(s, x) THEN SubSeq(s, 1, Len(s) - Len(x)) ELSE s

\* strings.Contains
Contains(s, sub) ==
    \E i \in 1..(Len(s) + 1) :
        i + Len(sub) - 1 <= Len(s) /\ SubSeq(s, i, i + Len(sub) - 1) = sub

\* strings.Trim(s, "\"")
RECURSIVE TrimQuotes(_)
TrimQuotes(s) ==
    IF s # <<>> /\ Head(s) = "\"" THEN TrimQuotes(Tail(s))
    ELSE IF s # <<>> /\ s[Len(s)] = "\"" THEN TrimQuotes(SubSeq(s, 1, Len(s) - 1))
    ELSE s

\* the identifiers and literals of the schemas and configurations below
s_users == <<"u", "s", "e", "r", "s">>
s_user == <<"u", "s", "e", "r">>
s_User == <<"U", "s", "e", "r">>
s_posts == <<"p", "o", "s", "t", "s">>
s_post == <<"p", "o", "s", "t">>
s_Post == <<"P", "o", "s", "t">>
s_createUser == <<"c", "r", "e", "a", "t", "e", "U", "s", "e", "r">>
s_createuser == <<"c", "r", "e", "a", "t", "e", "u", "s", "e", "r">>
s_updateUser == <<"u", "p", "d", "a", "t", "e", "U", "s", "e", "r">>
s_updateuser == <<"u", "p", "d", "a", "t", "e", "u", "s", "e", "r">>
s_deleteUser == <<"d", "e", "l", "e", "t", "e", "U", "s", "e", "r">>
s_addComment == <<"a", "d", "d", "C", "o", "m", "m", "e", "n", "t">>
s_id == <<"i", "d">>
s_name == <<"n", "a", "m", "e">>
s_author == <<"a", "u", "t", "h", "o", "r">>
s_authorId == <<"a", "u", "t", "h", "o", "r", "I", "d">>
s_uid == <<"u", "i", "d">>
s_tags == <<"t", "a", "g", "s">>
s_title == <<"t", "i", "t", "l", "e">>
s_UUID == <<"U", "U", "I", "D">>
s_String == <<"S", "t", "r", "i", "n", "g">>
s_ID == <<"I", "D">>
s_Int == <<"I", "n", "t">>
s_Float == <<"F", "l", "o", "a", "t">>
s_Boolean == <<"B", "o", "o", "l", "e", "a", "n">>
s_Query == <<"Q", "u", "e", "r", "y">>
s_Mutation == <<"M", "u", "t", "a", "t", "i", "o", "n">>
s_Subscription == <<"S", "u", "b", "s", "c", "r", "i", "p", "t", "i", "o", "n">>
s_uutype == <<"_", "_", "t", "y", "p", "e">>
s_uuschema == <<"_", "_", "s", "c", "h", "e", "m", "a">>
s_uuType == <<"_", "_", "T", "y", "p", "e">>
s_uuSchema == <<"_", "_", "S", "c", "h", "e", "m", "a">>
s_messageStream == <<"m", "e", "s", "s", "a", "g", "e", "S", "t", "r", "e", "a", "m">>
s_channelId == <<"c", "h", "a", "n", "n", "e", "l", "I", "d">>
s_userId == <<"u", "s", "e", "r", "I", "d">>
s_ticks == <<"t", "i", "c", "k", "s">>
s_limit == <<"l", "i", "m", "i", "t">>
s_keys == <<"k", "e", "y", "s">>
s_key == <<"k", "e", "y">>
s_Key == <<"K", "e", "y">>
s_parts == <<"p", "a", "r", "t", "s">>
s_create == <<"c", "r", "e", "a", "t", "e">>
s_update == <<"u", "p", "d", "a", "t", "e">>
s_delete == <<"d", "e", "l", "e", "t", "e">>
s_s == <<"s">>
s_x == <<"x">>
s_z == <<"z">>
s_ch == <<"c", "h">>
s_sh == <<"s", "h">>
s_y == <<"y">>
s_es == <<"e", "s">>
s_ies == <<"i", "e", "s">>
s_ey == <<"e", "y">>
s_eys == <<"e", "y", "s">>
s_uu == <<"_", "_">>
s_Id == <<"I", "d">>
s_slash == <<"/">>
s_idParam == <<"/", "{", "i", "d", "}">>
s_rfc4122 == <<"r", "f", "c", "4", "1", "2", "2">>
s_uuid == <<"u", "u", "i", "d">>
s_datetime == <<"d", "a", "t", "e", "-", "t", "i", "m", "e">>
RefPrefix == <<"#/components/schemas/">>

(***************************************************************************)
(* the schema AST (gqlparser ast.Type, ast.FieldDefinition, ast.Definition) *)
(***************************************************************************)
\* ast.Type: a named type, or a list with an element type
Named(n) == [NamedType |-> n, Elem |-> Nil, NonNull |-> FALSE]
NamedNN(n) == [NamedType |-> n, Elem |-> Nil, NonNull |-> TRUE]
ListOf(t) == [NamedType |-> <<>>, Elem |-> Some(t), NonNull |-> FALSE]
ListOfNN(t) == [NamedType |-> <<>>, Elem |-> Some(t), NonNull |-> TRUE]

\* ast.Type.Name(): the innermost named type
RECURSIVE TypeName(_)
TypeName(t) == IF t.Elem = Nil THEN t.NamedType ELSE TypeName(t.Elem[1])

\* field.Type.Elem.NamedType of a list type
ElemNamedType(t) == t.Elem[1].NamedType

\* ast.Directive, ast.Argument; directive and directive-argument names are only ever
\* compared whole, so each is one token; a value keeps its raw text
Directive(n, args) == [Name |-> n, Arguments |-> args]
DirArg(n, raw) == [Name |-> n, Raw |-> raw]

\* DirectiveList.ForName / ArgumentList.ForName: the first of that name, or nil
ForName(list, n) ==
    IF \E i \in DOMAIN list : list[i].Name = n
    THEN Some(list[CHOOSE i \in DOMAIN list :
                     list[i].Name = n /\ \A j \in 1..(i - 1) : list[j].Name # n])
    ELSE Nil

\* ast.Value.String() of a string value: the raw text in double quotes
ValueString(raw) == <<"\"">> \o raw \o <<"\"">>

Arg(n, t) == [Name |-> n, Type |-> t, Description |-> <<>>]
Field(n, t, args) ==
    [Name |-> n, Type |-> t, Arguments |-> args, Description |-> <<>>, Directives |-> <<>>]
FieldD(n, t, args, desc, dirs) ==
    [Name |-> n, Type |-> t, Arguments |-> args, Description |-> desc, Directives |-> dirs]

\* ast.Definition
Definition(kind, n, fields) ==
    [Kind |-> kind, Name |-> n, Fields |-> fields, EnumValues |-> <<>>, Types |-> <<>>,
     Directives |-> <<>>, Description |-> <<>>]
ScalarDef(n, dirs) ==
    [Kind |-> "SCALAR", Name |-> n, Fields |-> <<>>, EnumValues |-> <<>>, Types |-> <<>>,
     Directives |-> dirs, Description |-> <<>>]

(***************************************************************************)
(* small predicates                                                        *)
(***************************************************************************)
isVowel(r) == r \in {"a", "e", "i", "o", "u", "A", "E", "I", "O", "U"}

isBuiltInType(n) ==
    n = s_Query \/ n = s_Mutation \/ n = s_Subscription \/ HasPrefix(n, s_uu)

isScalarType(n) == n \in {s_Int, s_Float, s_String, s_Boolean, s_ID}

\* the first element of seq, in order, at which P holds; 0 when there is none
FirstIdx(seq, P(_)) ==
    IF \E i \in DOMAIN seq : P(seq[i])
    THEN CHOOSE i \in DOMAIN seq : P(seq[i]) /\ \A j \in 1..(i - 1) : ~P(seq[j])
    ELSE 0

\* all orders in which a map with key set S may be iterated
Perms(S) ==
    {p \in [1..Cardinality(S) -> S] : \A i, j \in DOMAIN p : i # j => p[i] # p[j]}

(***************************************************************************)
(* the converter's state                                                   *)
(***************************************************************************)
VARIABLES
    config,     \* Converter.config
    c_schema,   \* Converter.schema: nil or the parsed AST it points to
    schema,     \* Convert's local `schema`: nil or the parsed AST it points to
    aliased,    \* Converter.schema and the local `schema` are the same pointer
    c_doc,      \* Converter.doc: nil or the document under construction
    input,      \* the schema text the caller holds
    source,     \* the schemaSource argument of the running Convert call
    pc,         \* position of the running Convert call, "idle" between calls
    restPatterns, \* Convert's local `restPatterns`
    returned,   \* what the calls so far returned, oldest first
    before,     \* Converter.schema and Converter.doc when the running call began
    other       \* the locals of a second goroutine calling Convert on the same
                \* Converter while it is not running; pc "none" when there is none

vars == <<config, c_schema, schema, aliased, c_doc, input, source, pc, restPatterns,
          returned, before, other>>

(***************************************************************************)
(* naming heuristics                                                       *)
(***************************************************************************)
\* Converter.capitalize / Converter.uncapitalize
capitalize(s) == IF s = <<>> THEN s ELSE <<ToUpperChar(s[1])>> \o Tail(s)
uncapitalize(s) == IF s = <<>> THEN s ELSE <<ToLowerChar(s[1])>> \o Tail(s)

\* Converter.addPrefix
addPrefix(path) == IF config.PathPrefix # <<>> THEN config.PathPrefix \o path ELSE path

\* The iteration orders of the CustomPlurals map: each a sequence of its
\* (suffix, replacement) entries.  Go iterates a map in an unspecified order.
PluralOrders ==
    LET keys == DOMAIN config.CustomPlurals
    IN  {[i \in DOMAIN p |-> [suffix |-> p[i], replacement |-> config.CustomPlurals[p[i]]]] :
            p \in Perms(keys)}

\* Converter.pluralize, the CustomPlurals map iterated in the order ord
pluralize(ord, word) ==
    LET ci == FirstIdx(ord, LAMBDA e : HasSuffix(word, e.suffix))
        ei == FirstIdx(config.PluralizeSuffixesES, LAMBDA x : HasSuffix(word, x))
    IN  IF ci # 0 THEN TrimSuffix(word, ord[ci].suffix) \o ord[ci].replacement
        ELSE IF ei # 0 THEN word \o s_es
        ELSE IF /\ config.PluralizeSuffixIES # <<>>
                /\ HasSuffix(word, config.PluralizeSuffixIES)
                /\ Len(word) > 1
                /\ ~isVowel(word[Len(word) - 1])
             THEN SubSeq(word, 1, Len(word) - 1) \o s_ies
        ELSE word \o config.PluralizeDefaultSuffix

\* Converter.singularize, the CustomPlurals map iterated in the order ord
singularize(ord, word) ==
    LET ci == FirstIdx(ord, LAMBDA e : HasSuffix(word, e.replacement))
        base == SubSeq(word, 1, Len(word) - 2)
    IN  IF ci # 0 THEN TrimSuffix(word, ord[ci].replacement) \o ord[ci].suffix
        ELSE IF config.PluralizeSuffixIES # <<>> /\ HasSuffix(word, s_ies) /\ Len(word) > 3
             THEN SubSeq(word, 1, Len(word) - 3) \o config.PluralizeSuffixIES
        ELSE IF HasSuffix(word, s_es) /\ Len(word) > 2
             THEN IF FirstIdx(config.PluralizeSuffixesES, LAMBDA x : HasSuffix(base, x)) # 0
                  THEN base
                  ELSE SubSeq(word, 1, Len(word) - 1)
        ELSE IF HasSuffix(word, config.PluralizeDefaultSuffix) /\ Len(word) > 1
             THEN SubSeq(word, 1, Len(word) - Len(config.PluralizeDefaultSuffix))
        ELSE word

\* Converter.camelToTitle
camelToTitle(s) ==
    IF s = <<>> THEN s
    ELSE LET piece(i) == IF i = 1 THEN <<ToUpperChar(s[1])>>
                         ELSE IF \E k \in DOMAIN Uppers : Uppers[k] = s[i] THEN <<" ", s[i]>>
                         ELSE <<s[i]>>
             F[i \in 0..Len(s)] == IF i = 0 THEN <<>> ELSE F[i - 1] \o piece(i)
         IN  F[Len(s)]

(***************************************************************************)
(* description helpers                                                     *)
(***************************************************************************)
\* strings.Index: the 0-based offset of the first occurrence, -1 when none
Index(s, sub) ==
    IF Contains(s, sub)
    THEN (CHOOSE i \in 1..(Len(s) + 1) :
            /\ i + Len(sub) - 1 <= Len(s) /\ SubSeq(s, i, i + Len(sub) - 1) = sub
            /\ \A j \in 1..(i - 1) : SubSeq(s, j, j + Len(sub) - 1) # sub) - 1
    ELSE -1

isSpace(ch) == ch \in {" ", "\n", "\t", "\r"}

\* strings.TrimSpace
RECURSIVE TrimSpace(_)
TrimSpace(s) ==
    IF s # <<>> /\ isSpace(Head(s)) THEN TrimSpace(Tail(s))
    ELSE IF s # <<>> /\ isSpace(s[Len(s)]) THEN TrimSpace(SubSeq(s, 1, Len(s) - 1))
    ELSE s

actionVerbs ==
    <<<<"L", "i", "s", "t", " ">>,
      <<"G", "e", "t", " ">>,
      <<"F", "e", "t", "c", "h", " ">>,
      <<"R", "e", "t", "r", "i", "e", "v", "e", " ">>,
      <<"F", "i", "n", "d", " ">>,
      <<"C", "r", "e", "a", "t", "e", " ">>,
      <<"A", "d", "d", " ">>,
      <<"I", "n", "s", "e", "r", "t", " ">>,
      <<"P", "o", "s", "t", " ">>,
      <<"U", "p", "d", "a", "t", "e", " ">>,
      <<"M", "o", "d", "i", "f", "y", " ">>,
      <<"E", "d", "i", "t", " ">>,
      <<"P", "u", "t", " ">>,
      <<"P", "a", "t", "c", "h", " ">>,
      <<"D", "e", "l", "e", "t", "e", " ">>,
      <<"R", "e", "m", "o", "v", "e", " ">>,
      <<"D", "e", "s", "t", "r", "o", "y", " ">>,
      <<"S", "e", "a", "r", "c", "h", " ">>,
      <<"Q", "u", "e", "r", "y", " ">>,
      <<"F", "i", "l", "t", "e", "r", " ">>>>

\* Converter.addFieldNamePrefix
addFieldNamePrefix(fieldName, description) ==
    IF description = <<>> THEN camelToTitle(fieldName)
    ELSE IF FirstIdx(actionVerbs, LAMBDA v : HasPrefix(description, v)) # 0 THEN description
    ELSE camelToTitle(fieldName) \o <<" ", "-", " ">> \o description

punctuations == <<<<".", " ">>, <<"!", " ">>, <<"?", " ">>, <<":", " ">>, <<";", " ">>, <<" ", "-", " ">>>>

\* a split at the first delimiter of the list that occurs, wherever it occurs
splitDescriptionFirstListed(text) ==
    LET k == FirstIdx(punctuations, LAMBDA p : Index(text, p) # -1)
        idx == Index(text, punctuations[k])
    IN  IF text = <<>> THEN <<<<>>, <<>>>>
        ELSE IF k = 0 THEN <<text, text>>
        ELSE IF Len(punctuations[k]) = 3
             THEN <<TrimSpace(SubSeq(text, 1, idx)), TrimSpace(text)>>
             ELSE <<TrimSpace(SubSeq(text, 1, idx + 1)), TrimSpace(text)>>

\* Converter.splitDescription: <<summary, description>>
splitDescription(text) ==
    IF text = <<>> THEN <<<<>>, <<>>>>
    ELSE
      LET \* the loop's (firstPunctIdx, firstPunctLen) after the first k candidates
          F[k \in 0..Len(punctuations)] ==
              IF k = 0 THEN <<-1, 0>>
              ELSE LET idx == Index(text, punctuations[k])
                       prev == F[k - 1]
                   IN  IF idx # -1 /\ (prev[1] = -1 \/ idx < prev[1])
                       THEN <<idx, Len(punctuations[k])>>
                       ELSE prev
          firstPunctIdx == F[Len(punctuations)][1]
          firstPunctLen == F[Len(punctuations)][2]
      IN  IF firstPunctIdx = -1 THEN <<text, text>>
          ELSE IF firstPunctLen = 3
               THEN <<TrimSpace(SubSeq(text, 1, firstPunctIdx)), TrimSpace(text)>>
               ELSE <<TrimSpace(SubSeq(text, 1, firstPunctIdx + 1)), TrimSpace(text)>>

(***************************************************************************)
(* the OpenAPI document (converter/types.go)                               *)
(***************************************************************************)
\* Schema, all fields at their zero value
Schema0 ==
    [Type |-> <<>>, Format |-> <<>>, Description |-> <<>>, Properties |-> <<>>,
     Required |-> <<>>, Items |-> Nil, Ref |-> <<>>, Deprecated |-> FALSE, Enum |-> <<>>,
     OneOf |-> <<>>, MinLength |-> Nil, MaxLength |-> Nil, Minimum |-> Nil,
     Maximum |-> Nil, Pattern |-> <<>>]

TypeSchema(t) == [Schema0 EXCEPT !.Type = <<t>>]
RefSchema(n) == [Schema0 EXCEPT !.Ref = RefPrefix \o n]
ArraySchema(items) == [Schema0 EXCEPT !.Type = <<"array">>, !.Items = Some(items)]

\* Parameter
Parameter0 ==
    [Name |-> <<>>, In |-> <<>>, Description |-> <<>>, Required |-> FALSE,
     Schema |-> Nil, Style |-> <<>>, Explode |-> FALSE]

\* the injected path parameter id
IdPathParameter ==
    [Parameter0 EXCEPT !.Name = s_id, !.In = <<"path">>, !.Required = TRUE,
                       !.Schema = Some(TypeSchema("string"))]

\* Operation, PathItem
Operation0 ==
    [OperationID |-> <<>>, Summary |-> <<>>, Description |-> <<>>, Parameters |-> <<>>,
     RequestBody |-> Nil, Responses |-> <<>>, Deprecated |-> FALSE]
PathItem0 == [Get |-> Nil, Post |-> Nil, Put |-> Nil, Delete |-> Nil]

\* a map with key k set to v
Put(m, k, v) == [x \in (DOMAIN m) \cup {k} |-> IF x = k THEN v ELSE m[x]]

\* Responses{"200": {Description: d, Content: {mediaType: {Schema: s}}}}
Response200(d, mediaType, s) ==
    Put(<<>>, "200", [Description |-> d, Content |-> Put(<<>>, mediaType, [Schema |-> Some(s)])])

\* `if c.doc.Paths[path] == nil { c.doc.Paths[path] = &PathItem{} }`
EnsurePath(paths, path) == IF path \in DOMAIN paths THEN paths ELSE Put(paths, path, PathItem0)

SetGet(paths, path, op) ==
    LET p == EnsurePath(paths, path) IN [p EXCEPT ![path].Get = Some(op)]
SetPost(paths, path, op) ==
    LET p == EnsurePath(paths, path) IN [p EXCEPT ![path].Post = Some(op)]
SetPut(paths, path, op) ==
    LET p == EnsurePath(paths, path) IN [p EXCEPT ![path].Put = Some(op)]
SetDelete(paths, path, op) ==
    LET p == EnsurePath(paths, path) IN [p EXCEPT ![path].Delete = Some(op)]

(***************************************************************************)
(* type mapper and directive processors                                    *)
(***************************************************************************)
\* c.schema.Types
Types == c_schema[1].Types

RefKinds == {"OBJECT", "INPUT_OBJECT", "ENUM", "UNION", "INTERFACE"}

\* a type mapper that refers to every declared type, scalars included
RECURSIVE convertFieldTypeRefDeclared(_)
convertFieldTypeRefDeclared(fieldType) ==
    IF fieldType.Elem # Nil THEN ArraySchema(convertFieldTypeRefDeclared(fieldType.Elem[1]))
    ELSE LET typeName == fieldType.NamedType
         IN  IF typeName = s_Int THEN [TypeSchema("integer") EXCEPT !.Format = <<"int32">>]
             ELSE IF typeName = s_Float THEN [TypeSchema("number") EXCEPT !.Format = <<"double">>]
             ELSE IF typeName = s_Boolean THEN TypeSchema("boolean")
             ELSE IF isBuiltInType(typeName) THEN TypeSchema("object")
             ELSE IF typeName \in DOMAIN Types THEN RefSchema(typeName)
             ELSE TypeSchema("string")

\* Converter.convertFieldType
RECURSIVE convertFieldType(_)
convertFieldType(fieldType) ==
    IF fieldType.Elem # Nil THEN ArraySchema(convertFieldType(fieldType.Elem[1]))
    ELSE LET typeName == fieldType.NamedType
         IN  IF typeName = s_Int THEN [TypeSchema("integer") EXCEPT !.Format = <<"int32">>]
             ELSE IF typeName = s_Float THEN [TypeSchema("number") EXCEPT !.Format = <<"double">>]
             ELSE IF typeName = s_String THEN TypeSchema("string")
             ELSE IF typeName = s_Boolean THEN TypeSchema("boolean")
             ELSE IF typeName = s_ID THEN TypeSchema("string")
             ELSE IF isBuiltInType(typeName) THEN TypeSchema("object")
             ELSE IF typeName \in DOMAIN Types /\ Types[typeName].Kind \in RefKinds
                  THEN RefSchema(typeName)
             ELSE TypeSchema("string")

\* Converter.applySpecifiedBy
applySpecifiedBy(sch, url) ==
    LET fmt == IF Contains(url, s_rfc4122) \/ Contains(ToLower(url), s_uuid) THEN <<"uuid">>
               ELSE IF Contains(ToLower(url), s_datetime) THEN <<"date-time">>
               ELSE sch.Format
        desc == IF sch.Description # <<>> THEN sch.Description \o <<"\n\nSpec: ">> \o url
                ELSE <<"Spec: ">> \o url
    IN  [sch EXCEPT !.Format = fmt, !.Description = desc]

DigitChars == <<"0", "1", "2", "3", "4", "5", "6", "7", "8", "9">>
isDigit(ch) == \E i \in DOMAIN DigitChars : DigitChars[i] = ch

\* the longest prefix of s made of digits (fmt.Sscanf stops at the first other character)
RECURSIVE DigitPrefix(_)
DigitPrefix(s) ==
    IF s # <<>> /\ isDigit(Head(s)) THEN <<Head(s)>> \o DigitPrefix(Tail(s)) ELSE <<>>

\* parseInt (fmt.Sscanf "%d"): nil, or the number read, kept as its digits with an
\* optional sign
parseInt(s) ==
    LET signed == s # <<>> /\ Head(s) \in {"-", "+"}
        digits == DigitPrefix(IF signed THEN Tail(s) ELSE s)
    IN  IF digits = <<>> THEN Nil
        ELSE Some((IF signed /\ Head(s) = "-" THEN <<"-">> ELSE <<>>) \o digits)

\* parseFloat (fmt.Sscanf "%f"): nil, or the number read, kept as its text
parseFloat(s) ==
    LET signed == s # <<>> /\ Head(s) \in {"-", "+"}
        rest == IF signed THEN Tail(s) ELSE s
        whole == DigitPrefix(rest)
        after == SubSeq(rest, Len(whole) + 1, Len(rest))
        frac == IF after # <<>> /\ Head(after) = "." THEN DigitPrefix(Tail(after)) ELSE <<>>
    IN  IF whole = <<>> /\ frac = <<>> THEN Nil
        ELSE Some((IF signed /\ Head(s) = "-" THEN <<"-">> ELSE <<>>) \o whole
                  \o (IF frac # <<>> THEN <<".">> \o frac ELSE <<>>))

\* one argument of Converter.applyConstraints
applyConstraint(sch, arg) ==
    LET raw == TrimQuotes(arg.Raw)
    IN  IF arg.Name = "minLength" /\ parseInt(raw) # Nil
             THEN [sch EXCEPT !.MinLength = parseInt(raw)]
        ELSE IF arg.Name = "maxLength" /\ parseInt(raw) # Nil
             THEN [sch EXCEPT !.MaxLength = parseInt(raw)]
        ELSE IF arg.Name = "min" /\ parseFloat(raw) # Nil
             THEN [sch EXCEPT !.Minimum = parseFloat(raw)]
        ELSE IF arg.Name = "max" /\ parseFloat(raw) # Nil
             THEN [sch EXCEPT !.Maximum = parseFloat(raw)]
        ELSE IF arg.Name = "pattern" THEN [sch EXCEPT !.Pattern = raw]
        ELSE IF arg.Name = "format" THEN [sch EXCEPT !.Format = raw]
        ELSE sch

\* Converter.applyConstraints
RECURSIVE applyConstraintArgs(_, _)
applyConstraintArgs(sch, args) ==
    IF args = <<>> THEN sch ELSE applyConstraintArgs(applyConstraint(sch, Head(args)), Tail(args))

applyConstraints(sch, directive) == applyConstraintArgs(sch, directive.Arguments)

(***************************************************************************)
(* type converter                                                          *)
(***************************************************************************)
\* Converter.convertEnumType: the component schema of an enum
convertEnumType(typeDef) ==
    [Schema0 EXCEPT !.Type = <<"string">>,
                    !.Enum = [i \in DOMAIN typeDef.EnumValues |-> typeDef.EnumValues[i]],
                    !.Description = typeDef.Description]

\* Converter.convertUnionType: the component schema of a union
convertUnionType(typeDef) ==
    [Schema0 EXCEPT !.OneOf = [i \in DOMAIN typeDef.Types |-> RefSchema(typeDef.Types[i])],
                    !.Description = typeDef.Description]

\* an interface converted with a required list of its non-null fields, as an object
\* type is
convertInterfaceTypeRequired(typeDef) ==
    LET prop(field) ==
            LET ps == convertFieldType(field.Type)
            IN  IF field.Description # <<>>
                THEN [ps EXCEPT !.Description = addFieldNamePrefix(field.Name, field.Description)]
                ELSE ps
        F[i \in 0..Len(typeDef.Fields)] ==
            IF i = 0 THEN [props |-> <<>>, required |-> <<>>]
            ELSE [props |-> Put(F[i - 1].props, typeDef.Fields[i].Name, prop(typeDef.Fields[i])),
                  required |-> IF typeDef.Fields[i].Type.NonNull
                               THEN Append(F[i - 1].required, typeDef.Fields[i].Name)
                               ELSE F[i - 1].required]
    IN  [Schema0 EXCEPT !.Type = <<"object">>,
                        !.Properties = F[Len(typeDef.Fields)].props,
                        !.Required = F[Len(typeDef.Fields)].required,
                        !.Description = typeDef.Description]

\* Converter.convertInterfaceType: the component schema of an interface
convertInterfaceType(typeDef) ==
    LET prop(field) ==
            LET ps == convertFieldType(field.Type)
            IN  IF field.Description # <<>>
                THEN [ps EXCEPT !.Description = addFieldNamePrefix(field.Name, field.Description)]
                ELSE ps
        F[i \in 0..Len(typeDef.Fields)] ==
            IF i = 0 THEN <<>>
            ELSE Put(F[i - 1], typeDef.Fields[i].Name, prop(typeDef.Fields[i]))
    IN  [Schema0 EXCEPT !.Type = <<"object">>,
                        !.Properties = F[Len(typeDef.Fields)],
                        !.Description = typeDef.Description]

\* convertType, lines 858-895: the property built from the field's own type and directives
fieldPropSchema(field) ==
    LET s0 == convertFieldType(field.Type)
        s1 == IF field.Description # <<>>
              THEN [s0 EXCEPT !.Description = addFieldNamePrefix(field.Name, field.Description)]
              ELSE s0
        deprecated == ForName(field.Directives, "deprecated")
        reason == IF deprecated = Nil THEN Nil ELSE ForName(deprecated[1].Arguments, "reason")
        s2 == IF deprecated = Nil THEN s1
              ELSE IF reason = Nil THEN [s1 EXCEPT !.Deprecated = TRUE]
              ELSE [s1 EXCEPT !.Deprecated = TRUE,
                              !.Description = camelToTitle(field.Name) \o <<" - DEPRECATED: ">>
                                              \o TrimQuotes(ValueString(reason[1].Raw))]
        constraint == ForName(field.Directives, "constraint")
        s3 == IF constraint = Nil THEN s2 ELSE applyConstraints(s2, constraint[1])
        tn == TypeName(field.Type)
        specifiedBy == IF tn \in DOMAIN Types THEN ForName(Types[tn].Directives, "specifiedBy")
                       ELSE Nil
        urlArg == IF specifiedBy = Nil THEN Nil ELSE ForName(specifiedBy[1].Arguments, "url")
    IN  IF urlArg = Nil THEN s3
        ELSE applySpecifiedBy(s3, TrimQuotes(ValueString(urlArg[1].Raw)))

\* convertType, lines 897-905: the field is a list of a non-scalar type and is left out
fieldDropped(field) ==
    /\ field.Type.Elem # Nil
    /\ ~isScalarType(ElemNamedType(field.Type))
    /\ ~isBuiltInType(ElemNamedType(field.Type))

\* convertType, line 907: the field is an object reference and becomes an id
fieldFlattened(field) ==
    /\ field.Type.Elem = Nil
    /\ ~isScalarType(TypeName(field.Type))
    /\ ~isBuiltInType(TypeName(field.Type))

\* convertType, lines 909-913: the replacement property of an object reference
referenceSchema(ord, field) ==
    [Schema0 EXCEPT
        !.Type = <<"string">>,
        !.Description = <<"Reference to ">> \o TypeName(field.Type) \o <<".id - use GET /">>
                        \o pluralize(ord, ToLower(TypeName(field.Type)))
                        \o <<"/{">> \o field.Name \o <<"Id}">>]

\* convertType, line 913: field.Name after the loop body (the AST field is renamed)
fieldKey(field) == IF fieldFlattened(field) THEN field.Name \o s_Id ELSE field.Name

\* convertType, line 918: the key joins the required list
fieldRequired(field) == field.Type.NonNull

\* Converter.convertType for an object or input object: the component schema and
\* the type's field list as the loop leaves it
convertType(ord, typeDef) ==
    LET fs == typeDef.Fields
        F[i \in 0..Len(fs)] ==
            IF i = 0 THEN [props |-> <<>>, required |-> <<>>]
            ELSE LET field == fs[i]
                     acc == F[i - 1]
                 IN  IF fieldDropped(field) THEN acc
                     ELSE [props |-> Put(acc.props, fieldKey(field),
                                         IF fieldFlattened(field) THEN referenceSchema(ord, field)
                                         ELSE fieldPropSchema(field)),
                           required |-> IF fieldRequired(field)
                                        THEN Append(acc.required, fieldKey(field))
                                        ELSE acc.required]
    IN  [schema |-> [Schema0 EXCEPT !.Type = <<"object">>,
                                    !.Properties = F[Len(fs)].props,
                                    !.Required = F[Len(fs)].required,
                                    !.Description = typeDef.Description],
         fields |-> [i \in DOMAIN fs |->
                        IF fieldDropped(fs[i]) THEN fs[i]
                        ELSE [fs[i] EXCEPT !.Name = fieldKey(fs[i])]]]

(***************************************************************************)
(* REST pattern detector                                                   *)
(***************************************************************************)
\* c.schema.Query, c.schema.Mutation, c.schema.Subscription: nil, or the root type
RootFields(root) == IF root = Nil THEN <<>> ELSE Types[root[1]].Fields
QueryFields == RootFields(c_schema[1].Query)
MutationFields == RootFields(c_schema[1].Mutation)
SubscriptionFields == RootFields(c_schema[1].Subscription)

\* the local schema.Types, and the fields of the root types Convert passes on as
\* queryType, mutationType and subscriptionType
localTypes == schema[1].Types
queryTypeFields ==
    IF schema[1].Query = Nil THEN <<>> ELSE localTypes[schema[1].Query[1]].Fields
mutationTypeFields ==
    IF schema[1].Mutation = Nil THEN <<>> ELSE localTypes[schema[1].Mutation[1]].Fields
subscriptionTypeFields ==
    IF schema[1].Subscription = Nil THEN <<>> ELSE localTypes[schema[1].Subscription[1]].Fields

\* c.schema.Types[typeName], as the pointer RESTPattern.Type holds
TypePtr(typeName) == IF typeName \in DOMAIN Types THEN Some(typeName) ELSE Nil

\* `if patterns[r] == nil { patterns[r] = &RESTPattern{...} }`, then the flag and the type
Record(patterns, r, plural, op, typeName) ==
    LET pat == IF r \in DOMAIN patterns THEN patterns[r]
               ELSE [Resource |-> r, Plural |-> plural, Type |-> Nil, Operations |-> {}]
    IN  Put(patterns, r, [pat EXCEPT !.Operations = @ \cup {op}, !.Type = TypePtr(typeName)])

\* detectRESTPatterns, lines 696-713: a list field records the list operation
detectList(ord, patterns, field) ==
    IF field.Type.Elem # Nil /\ ElemNamedType(field.Type) # <<>>
       /\ singularize(ord, field.Name) # field.Name
    THEN Record(patterns, singularize(ord, field.Name), field.Name, "list",
                ElemNamedType(field.Type))
    ELSE patterns

\* detectRESTPatterns, lines 715-729: a field with the one argument id records get
detectGet(ord, patterns, field) ==
    LET typeName == TypeName(field.Type)
    IN  IF /\ Len(field.Arguments) = 1
           /\ field.Arguments[1].Name = s_id
           /\ \/ field.Name = singularize(ord, typeName)
              \/ ToLower(field.Name) = ToLower(typeName)
        THEN Record(patterns, field.Name, pluralize(ord, field.Name), "get", typeName)
        ELSE patterns

\* detectRESTPatterns, first pass, over the Query fields fs in their order
queryPassOf(ord, fs) ==
    LET F[i \in 0..Len(fs)] ==
            IF i = 0 THEN <<>>
            ELSE detectGet(ord, detectList(ord, F[i - 1], fs[i]), fs[i])
    IN  F[Len(fs)]

\* detectRESTPatterns, first pass
queryPass(ord) == queryPassOf(ord, QueryFields)

\* a mutation pass that creates the pattern of a prefixed mutation when none exists
detectPrefixCreating(patterns, name, prefix, op) ==
    LET resource == uncapitalize(TrimPrefix(name, prefix))
        pat == IF resource \in DOMAIN patterns THEN patterns[resource]
               ELSE [Resource |-> resource, Plural |-> resource, Type |-> Nil,
                     Operations |-> {}]
    IN  IF prefix # <<>> /\ HasPrefix(name, prefix)
        THEN Put(patterns, resource, [pat EXCEPT !.Operations = @ \cup {op}])
        ELSE patterns

\* detectRESTPatterns, lines 739-760: a prefixed mutation sets the flag of an
\* existing pattern
detectPrefix(patterns, name, prefix, op) ==
    LET resource == uncapitalize(TrimPrefix(name, prefix))
    IN  IF prefix # <<>> /\ HasPrefix(name, prefix) /\ resource \in DOMAIN patterns
        THEN [patterns EXCEPT ![resource].Operations = @ \cup {op}]
        ELSE patterns

\* detectRESTPatterns, second pass, over the Mutation fields fs in their order
mutationPassOf(patterns, fs) ==
    LET F[i \in 0..Len(fs)] ==
            IF i = 0 THEN patterns
            ELSE detectPrefix(
                   detectPrefix(
                     detectPrefix(F[i - 1], fs[i].Name, config.CRUDPrefixCreate, "create"),
                     fs[i].Name, config.CRUDPrefixUpdate, "update"),
                   fs[i].Name, config.CRUDPrefixDelete, "delete")
    IN  F[Len(fs)]

\* detectRESTPatterns, second pass
mutationPass(patterns) == mutationPassOf(patterns, MutationFields)

\* a filter that asks for the list flag alone
promotedListOnly(pattern) == "list" \in pattern.Operations

\* detectRESTPatterns, lines 764-776: a pattern is kept when it has list and create
promoted(pattern) == "list" \in pattern.Operations /\ "create" \in pattern.Operations

\* Converter.detectRESTPatterns
detectRESTPatterns(ord) ==
    LET patterns == mutationPass(queryPass(ord))
    IN  [r \in {x \in DOMAIN patterns : promoted(patterns[x])} |-> patterns[r]]

(***************************************************************************)
(* path builder: one operation from one root field                         *)
(***************************************************************************)
s_list == <<"l", "i", "s", "t">>
s_get == <<"g", "e", "t">>
s_subscribe == <<"s", "u", "b", "s", "c", "r", "i", "b", "e">>

\* the @deprecated handling shared by convertQueryField, convertMutationField and
\* convertSubscriptionField
applyDeprecated(op, field) ==
    LET deprecated == ForName(field.Directives, "deprecated")
        reason == IF deprecated = Nil THEN Nil ELSE ForName(deprecated[1].Arguments, "reason")
        depReason == TrimQuotes(ValueString(reason[1].Raw))
    IN  IF deprecated = Nil THEN op
        ELSE IF reason = Nil THEN [op EXCEPT !.Deprecated = TRUE]
        ELSE [op EXCEPT !.Deprecated = TRUE,
                        !.Summary = <<"DEPRECATED: ">> \o depReason,
                        !.Description =
                            IF op.Description # <<>>
                            THEN <<"DEPRECATED: ">> \o depReason \o <<"\n\n">> \o op.Description
                            ELSE <<"DEPRECATED: ">> \o depReason]

\* an argument as a query parameter (convertQueryField, convertSubscriptionField)
queryParameter(arg) ==
    [Parameter0 EXCEPT !.Name = arg.Name, !.In = <<"query">>,
                       !.Required = arg.Type.NonNull,
                       !.Schema = Some(convertFieldType(arg.Type)),
                       !.Description = arg.Description,
                       !.Style = IF arg.Type.Elem # Nil THEN <<"form">> ELSE <<>>,
                       !.Explode = arg.Type.Elem # Nil]

\* Converter.convertQueryField
convertQueryField(field) ==
    LET sd == splitDescription(addFieldNamePrefix(field.Name, field.Description))
        op == [Operation0 EXCEPT
                 !.OperationID = field.Name,
                 !.Summary = IF sd[1] = <<>> THEN camelToTitle(field.Name) ELSE sd[1],
                 !.Description = IF sd[1] = <<>> THEN <<>> ELSE sd[2],
                 !.Responses = Response200(<<"Successful response">>, "application/json",
                                           convertFieldType(field.Type))]
    IN  [applyDeprecated(op, field) EXCEPT
           !.Parameters = [i \in DOMAIN field.Arguments |-> queryParameter(field.Arguments[i])]]

\* convertMutationField, lines 1437-1463: the arguments as one JSON request body
requestBody(args) ==
    LET F[i \in 0..Len(args)] ==
            IF i = 0 THEN [props |-> <<>>, required |-> <<>>]
            ELSE LET ps == convertFieldType(args[i].Type)
                 IN  [props |-> Put(F[i - 1].props, args[i].Name,
                                    IF args[i].Description # <<>>
                                    THEN [ps EXCEPT !.Description = args[i].Description]
                                    ELSE ps),
                      required |-> IF args[i].Type.NonNull
                                   THEN Append(F[i - 1].required, args[i].Name)
                                   ELSE F[i - 1].required]
    IN  IF Len(args) > 0
        THEN Some([Description |-> <<>>, Required |-> TRUE,
                   Content |-> Put(<<>>, "application/json",
                       [Schema |-> Some([Schema0 EXCEPT !.Type = <<"object">>,
                                                        !.Properties = F[Len(args)].props,
                                                        !.Required = F[Len(args)].required])])])
        ELSE Nil

\* Converter.convertMutationField
convertMutationField(field, fallbackSummary) ==
    LET sd == splitDescription(addFieldNamePrefix(field.Name, field.Description))
        summary == IF field.Description # <<>> THEN sd[1]
                   ELSE IF fallbackSummary # <<>> THEN fallbackSummary
                   ELSE camelToTitle(field.Name)
        description == IF field.Description # <<>> THEN sd[2]
                       ELSE IF fallbackSummary # <<>> THEN fallbackSummary
                       ELSE <<>>
        op == [Operation0 EXCEPT
                 !.OperationID = field.Name,
                 !.Summary = summary,
                 !.Description = description,
                 !.Responses = Response200(<<"Successful response">>, "application/json",
                                           convertFieldType(field.Type))]
    IN  [applyDeprecated(op, field) EXCEPT !.RequestBody = requestBody(field.Arguments)]

\* the first non-null argument, in declaration order; 0 when there is none
firstRequired(args) == FirstIdx(args, LAMBDA a : a.Type.NonNull)

\* Converter.buildSubscriptionPath
buildSubscriptionPath(field) ==
    LET basePath == s_slash \o field.Name
        k == firstRequired(field.Arguments)
    IN  IF k # 0 THEN addPrefix(basePath \o <<"/", "{">> \o field.Arguments[k].Name \o <<"}">>)
        ELSE addPrefix(basePath)

\* convertSubscriptionField with the used-path-parameter test left out: every non-null
\* argument becomes a path parameter
subscriptionParameterEveryRequired(args, i) ==
    IF args[i].Type.NonNull
    THEN [Parameter0 EXCEPT !.Name = args[i].Name, !.In = <<"path">>, !.Required = TRUE,
                            !.Schema = Some(convertFieldType(args[i].Type)),
                            !.Description = args[i].Description]
    ELSE queryParameter(args[i])

\* convertSubscriptionField, lines 1285-1316: the parameter of the i-th argument
subscriptionParameter(args, i) ==
    IF args[i].Type.NonNull /\ firstRequired(args) = i
    THEN [Parameter0 EXCEPT !.Name = args[i].Name, !.In = <<"path">>, !.Required = TRUE,
                            !.Schema = Some(convertFieldType(args[i].Type)),
                            !.Description = args[i].Description]
    ELSE queryParameter(args[i])

\* Converter.convertSubscriptionField
convertSubscriptionField(field) ==
    LET sd == splitDescription(addFieldNamePrefix(field.Name, field.Description))
        returnTypeName == IF field.Type.Elem # Nil THEN ElemNamedType(field.Type)
                          ELSE TypeName(field.Type)
        sse == <<"Server-Sent Events (SSE) stream.\n\nEach event is formatted as:\n  event: ">>
               \o field.Name \o <<"\n  data: <JSON-encoded ">> \o returnTypeName
               \o <<" object>\n\nExample:\n  event: ">> \o field.Name
               \o <<"\n  data: {\"id\":\"123\",...}\n\nThe connection remains open ...">>
        op == [Operation0 EXCEPT
                 !.OperationID = s_subscribe \o capitalize(field.Name),
                 !.Summary = <<"Subscribe: ">> \o sd[1],
                 !.Description = IF sd[2] # <<>> THEN sd[2] \o <<"\n\n">> \o sse ELSE sse,
                 !.Responses = Response200(
                     <<"SSE stream of ">> \o returnTypeName \o <<" events">>,
                     "text/event-stream",
                     [Schema0 EXCEPT
                        !.Type = <<"string">>,
                        !.Description = <<"Server-Sent Events stream. Each event contains a ">>
                                        \o returnTypeName \o <<" object in JSON format.">>])]
        op1 == IF op.Summary = <<"Subscribe: ">>
               THEN [op EXCEPT !.Summary = <<"Subscribe to ">> \o camelToTitle(field.Name)]
               ELSE op
    IN  [applyDeprecated(op1, field) EXCEPT
           !.Parameters = [i \in DOMAIN field.Arguments |->
                              subscriptionParameter(field.Arguments, i)]]

(***************************************************************************)
(* path builder: the three passes over the root types                      *)
(***************************************************************************)
\* convertQueries, lines 935-959: GET /{plural}
listOperation(pattern) ==
    [Operation0 EXCEPT
       !.OperationID = s_list \o capitalize(pattern.Plural),
       !.Summary = <<"List ">> \o pattern.Plural,
       !.Responses = Response200(<<"Successful response">>, "application/json",
                                 ArraySchema(RefSchema(pattern.Type[1])))]

\* convertQueries, lines 962-992: GET /{plural}/{id}
getOperation(resource, pattern) ==
    [Operation0 EXCEPT
       !.OperationID = s_get \o capitalize(resource),
       !.Summary = <<"Get ">> \o resource \o <<" by ID">>,
       !.Parameters = <<IdPathParameter>>,
       !.Responses = Response200(<<"Successful response">>, "application/json",
                                 RefSchema(pattern.Type[1]))]

\* the pattern loop without `processedFields[resource] = true`
queryPatternGetUnmarked(acc, resource, pattern) ==
    LET path == addPrefix(s_slash \o pattern.Plural)
        idPath == addPrefix(s_slash \o pattern.Plural \o s_idParam)
        a1 == IF "list" \in pattern.Operations
              THEN [paths |-> SetGet(acc.paths, path, listOperation(pattern)),
                    processed |-> acc.processed \cup {pattern.Plural}]
              ELSE acc
    IN  IF "get" \in pattern.Operations
        THEN [paths |-> SetGet(a1.paths, idPath, getOperation(resource, pattern)),
              processed |-> a1.processed]
        ELSE a1

\* convertQueries, lines 930-993: one pattern; acc is (paths, processedFields)
queryPattern(acc, resource, pattern) ==
    LET path == addPrefix(s_slash \o pattern.Plural)
        idPath == addPrefix(s_slash \o pattern.Plural \o s_idParam)
        a1 == IF "list" \in pattern.Operations
              THEN [paths |-> SetGet(acc.paths, path, listOperation(pattern)),
                    processed |-> acc.processed \cup {pattern.Plural}]
              ELSE acc
    IN  IF "get" \in pattern.Operations
        THEN [paths |-> SetGet(a1.paths, idPath, getOperation(resource, pattern)),
              processed |-> a1.processed \cup {resource}]
        ELSE a1

\* convertQueries, lines 996-1013: the remaining Query fields, 1:1
queryRemaining(paths, processed, fields) ==
    LET F[i \in 0..Len(fields)] ==
            IF i = 0 THEN paths
            ELSE IF fields[i].Name \in processed \/ HasPrefix(fields[i].Name, s_uu)
                 THEN F[i - 1]
                 ELSE SetGet(F[i - 1], addPrefix(s_slash \o fields[i].Name),
                             convertQueryField(fields[i]))
    IN  F[Len(fields)]

\* convertQueries, lines 1022-1026: the field gets a sub-resource endpoint
isSubResource(field) ==
    /\ field.Type.Elem # Nil
    /\ ElemNamedType(field.Type) # <<>>
    /\ ~isScalarType(ElemNamedType(field.Type))

\* convertQueries, lines 1029-1062: GET /{plural(lower(type))}/{id}/{field}
subResourcePath(ord, typeDef, field) ==
    addPrefix(s_slash \o pluralize(ord, ToLower(typeDef.Name)) \o s_idParam
              \o s_slash \o field.Name)

subResourceOperation(typeDef, field) ==
    [Operation0 EXCEPT
       !.OperationID = s_get \o typeDef.Name \o capitalize(field.Name),
       !.Summary = <<"Get ">> \o field.Name \o <<" by ">> \o ToLower(typeDef.Name),
       !.Parameters = <<IdPathParameter>>,
       !.Responses = Response200(<<"Successful response">>, "application/json",
                                 ArraySchema(RefSchema(ElemNamedType(field.Type))))]

\* convertQueries, lines 1016-1065, for one type definition
subResources(ord, paths, typeDef) ==
    LET fs == typeDef.Fields
        F[i \in 0..Len(fs)] ==
            IF i = 0 THEN paths
            ELSE IF isSubResource(fs[i])
                 THEN SetGet(F[i - 1], subResourcePath(ord, typeDef, fs[i]),
                             subResourceOperation(typeDef, fs[i]))
                 ELSE F[i - 1]
    IN  IF isBuiltInType(typeDef.Name) \/ typeDef.Kind # "OBJECT" THEN paths
        ELSE F[Len(fs)]

\* The types whose visit in the sub-resource loop writes a path.  The loop ranges
\* over the map c.schema.Types in an unspecified order; a type outside this set is
\* passed over without effect, so only the relative order of these matters.
subResourceTypes ==
    {n \in DOMAIN Types :
        /\ ~isBuiltInType(n) /\ Types[n].Kind = "OBJECT"
        /\ \E i \in DOMAIN Types[n].Fields : isSubResource(Types[n].Fields[i])}

\* Converter.convertQueries: the paths after the pass.  pord is the order in which
\* the restPatterns map is iterated, tord the order of the type map, ord the order
\* of the CustomPlurals map.
convertQueries(paths, patterns, pord, tord, ord) ==
    LET P[i \in 0..Len(pord)] ==
            IF i = 0 THEN [paths |-> paths, processed |-> {}]
            ELSE queryPattern(P[i - 1], pord[i], patterns[pord[i]])
        afterPatterns == P[Len(pord)]
        remaining == queryRemaining(afterPatterns.paths, afterPatterns.processed,
                                    queryTypeFields)
        T[i \in 0..Len(tord)] ==
            IF i = 0 THEN remaining ELSE subResources(ord, T[i - 1], Types[tord[i]])
    IN  T[Len(tord)]

\* convertMutations: the Mutation field literally named prefix + Capitalize(resource)
findMutation(prefix, resource) ==
    LET k == FirstIdx(mutationTypeFields, LAMBDA f : f.Name = prefix \o capitalize(resource))
    IN  IF k = 0 THEN Nil ELSE Some(mutationTypeFields[k])

\* convertMutations, lines 1076-1095: create
mutationCreate(acc, resource, pattern) ==
    LET path == addPrefix(s_slash \o pattern.Plural)
        createField == findMutation(config.CRUDPrefixCreate, resource)
    IN  IF "create" \notin pattern.Operations THEN acc
        ELSE IF createField = Nil THEN [acc EXCEPT !.paths = EnsurePath(acc.paths, path)]
        ELSE [paths |-> SetPost(acc.paths, path,
                                convertMutationField(createField[1],
                                                     <<"Create ">> \o resource)),
              processed |-> acc.processed \cup {createField[1].Name}]

\* an update that leaves the operation as convertMutationField built it, with no
\* injected id parameter
mutationUpdateNoId(acc, resource, pattern) ==
    LET path == addPrefix(s_slash \o pattern.Plural \o s_idParam)
        updateField == findMutation(config.CRUDPrefixUpdate, resource)
    IN  IF "update" \notin pattern.Operations THEN acc
        ELSE IF updateField = Nil THEN [acc EXCEPT !.paths = EnsurePath(acc.paths, path)]
        ELSE [paths |-> SetPut(acc.paths, path,
                               convertMutationField(updateField[1], <<"Update ">> \o resource)),
              processed |-> acc.processed \cup {updateField[1].Name}]

\* convertMutations, lines 1098-1127: update
mutationUpdate(acc, resource, pattern) ==
    LET path == addPrefix(s_slash \o pattern.Plural \o s_idParam)
        updateField == findMutation(config.CRUDPrefixUpdate, resource)
        op == convertMutationField(updateField[1], <<"Update ">> \o resource)
    IN  IF "update" \notin pattern.Operations THEN acc
        ELSE IF updateField = Nil THEN [acc EXCEPT !.paths = EnsurePath(acc.paths, path)]
        ELSE [paths |-> SetPut(acc.paths, path,
                               [op EXCEPT !.Parameters = <<IdPathParameter>> \o op.Parameters]),
              processed |-> acc.processed \cup {updateField[1].Name}]

\* convertMutations, lines 1130-1162: delete
mutationDelete(acc, resource, pattern) ==
    LET path == addPrefix(s_slash \o pattern.Plural \o s_idParam)
        deleteField == findMutation(config.CRUDPrefixDelete, resource)
        op == convertMutationField(deleteField[1], <<"Delete ">> \o resource)
        onlyId == /\ Len(deleteField[1].Arguments) = 1
                  /\ deleteField[1].Arguments[1].Name = s_id
    IN  IF "delete" \notin pattern.Operations THEN acc
        ELSE IF deleteField = Nil THEN [acc EXCEPT !.paths = EnsurePath(acc.paths, path)]
        ELSE [paths |-> SetDelete(acc.paths, path,
                                  IF onlyId
                                  THEN [op EXCEPT !.Parameters = <<IdPathParameter>>,
                                                  !.RequestBody = Nil]
                                  ELSE op),
              processed |-> acc.processed \cup {deleteField[1].Name}]

\* convertMutations, lines 1166-1178: the remaining Mutation fields, 1:1
mutationRemaining(paths, processed, fields) ==
    LET F[i \in 0..Len(fields)] ==
            IF i = 0 THEN paths
            ELSE IF fields[i].Name \in processed THEN F[i - 1]
                 ELSE SetPost(F[i - 1], addPrefix(s_slash \o fields[i].Name),
                              convertMutationField(fields[i], <<>>))
    IN  F[Len(fields)]

\* Converter.convertMutations: the paths after the pass
convertMutations(paths, patterns, pord) ==
    LET P[i \in 0..Len(pord)] ==
            IF i = 0 THEN [paths |-> paths, processed |-> {}]
            ELSE mutationDelete(
                   mutationUpdate(
                     mutationCreate(P[i - 1], pord[i], patterns[pord[i]]),
                     pord[i], patterns[pord[i]]),
                   pord[i], patterns[pord[i]])
    IN  mutationRemaining(P[Len(pord)].paths, P[Len(pord)].processed, mutationTypeFields)

\* Converter.convertSubscriptions: the paths after the pass
convertSubscriptions(paths) ==
    LET fs == subscriptionTypeFields
        F[i \in 0..Len(fs)] ==
            IF i = 0 THEN paths
            ELSE IF HasPrefix(fs[i].Name, s_uu) THEN F[i - 1]
                 ELSE SetGet(F[i - 1], buildSubscriptionPath(fs[i]),
                             convertSubscriptionField(fs[i]))
    IN  F[Len(fs)]

(***************************************************************************)
(* document metadata                                                       *)
(***************************************************************************)
TQ == "\"\"\""
declKeywords == <<"type ", "interface ", "scalar ", "enum ", "union ", "input ", "directive ">>

\* strings.Join(lines, "\n")
RECURSIVE JoinLines(_)
JoinLines(ls) ==
    IF ls = <<>> THEN <<>>
    ELSE IF Len(ls) = 1 THEN ls[1]
    ELSE ls[1] \o <<"\n">> \o JoinLines(Tail(ls))

\* strings.Split(s, "\n")
RECURSIVE SplitLines(_)
SplitLines(s) ==
    IF \E i \in DOMAIN s : s[i] = "\n"
    THEN LET k == CHOOSE i \in DOMAIN s : s[i] = "\n" /\ \A j \in 1..(i - 1) : s[j] # "\n"
         IN  <<SubSeq(s, 1, k - 1)>> \o SplitLines(SubSeq(s, k + 1, Len(s)))
    ELSE <<s>>

\* strings.Count(trimmed, `"""`)
CountTQ(s) == Cardinality({i \in DOMAIN s : s[i] = TQ})

\* Converter.extractSchemaDescription, over the lines of the schema text
extractSchemaDescription(lines) ==
    LET step(st, line) ==
            LET trimmed == TrimSpace(line)
            IN  IF st.done THEN st
                ELSE IF HasPrefix(trimmed, <<TQ>>)
                     THEN IF st.inBlock THEN [st EXCEPT !.inBlock = FALSE]
                          ELSE IF CountTQ(trimmed) >= 2
                               THEN [st EXCEPT !.desc = Append(@,
                                        TrimSpace(TrimSuffix(TrimPrefix(trimmed, <<TQ>>), <<TQ>>)))]
                               ELSE [st EXCEPT !.inBlock = TRUE]
                ELSE IF st.inBlock THEN [st EXCEPT !.desc = Append(@, trimmed)]
                ELSE IF FirstIdx(declKeywords, LAMBDA k : HasPrefix(trimmed, <<k>>)) # 0
                     THEN [st EXCEPT !.done = TRUE]
                ELSE IF trimmed = <<>> /\ Len(st.desc) > 0 THEN [st EXCEPT !.done = TRUE]
                ELSE st
        F[i \in 0..Len(lines)] ==
            IF i = 0 THEN [desc |-> <<>>, inBlock |-> FALSE, done |-> FALSE]
            ELSE step(F[i - 1], lines[i])
    IN  TrimSpace(JoinLines(F[Len(lines)].desc))

DefaultTitle == <<"Converted from GraphQL">>

\* Convert, lines 600-627: Info
buildInfo(lines) ==
    LET schemaDesc == extractSchemaDescription(lines)
        ls == SplitLines(schemaDesc)
        firstLine == TrimSpace(ls[1])
        useFirst == schemaDesc # <<>> /\ firstLine # <<>> /\ config.Title = DefaultTitle
        title == IF useFirst THEN firstLine ELSE config.Title
        description == IF useFirst
                       THEN IF Len(ls) > 1 THEN TrimSpace(JoinLines(Tail(ls))) ELSE <<>>
                       ELSE schemaDesc
        footer == <<"Converted from GraphQL (">> \o config.Version \o <<")">>
    IN  [Title |-> title,
         Version |-> config.Version,
         Description |-> IF description # <<>>
                         THEN description \o <<"\n\n---\n\n">> \o footer
                         ELSE footer]

\* Convert, lines 629-644: the new document
newDocument(lines) ==
    [OpenAPI |-> <<"3.0.0">>,
     Info |-> buildInfo(lines),
     Servers |-> IF config.BaseURL # <<>> THEN <<[URL |-> config.BaseURL]>> ELSE <<>>,
     Paths |-> <<>>,
     Schemas |-> <<>>]

(***************************************************************************)
(* schemas and configurations the converter is run on                      *)
(***************************************************************************)
s_me == <<"m", "e">>
s_text == <<"t", "e", "x", "t">>
s_Part == <<"P", "a", "r", "t">>
s_PostInput == <<"P", "o", "s", "t", "I", "n", "p", "u", "t">>
s_Role == <<"R", "o", "l", "e">>
s_role == <<"r", "o", "l", "e">>
s_Node == <<"N", "o", "d", "e">>
s_SearchResult == <<"S", "e", "a", "r", "c", "h", "R", "e", "s", "u", "l", "t">>
s_ADMIN == <<"A", "D", "M", "I", "N">>
s_GUEST == <<"G", "U", "E", "S", "T">>
s_apiPrefix == <<"/", "a", "p", "i">>

\* bounds of the model
MaxQueryFields == 2
MaxMutationFields == 2
MaxCalls == 2

\* the defaults of the command line (README, Usage)
DefaultConfig ==
    [Title |-> DefaultTitle, Version |-> <<"1.0.0">>, BaseURL |-> <<>>, PathPrefix |-> <<>>,
     DetectRESTPatterns |-> TRUE, CustomPlurals |-> <<>>,
     PluralizeSuffixesES |-> <<s_s, s_x, s_z, s_ch, s_sh>>,
     PluralizeSuffixIES |-> s_y, PluralizeDefaultSuffix |-> s_s,
     CRUDPrefixCreate |-> s_create, CRUDPrefixUpdate |-> s_update,
     CRUDPrefixDelete |-> s_delete]

NoDetectConfig == [DefaultConfig EXCEPT !.DetectRESTPatterns = FALSE]
PrefixConfig == [DefaultConfig EXCEPT !.PathPrefix = s_apiPrefix,
                                      !.BaseURL = <<"https://api.example.com">>,
                                      !.Title = <<"My API">>]
\* a custom pluralization table with two entries
CustomConfig == [DefaultConfig EXCEPT !.CustomPlurals = Put(Put(<<>>, s_y, s_ies), s_ey, s_eys)]

\* the types gqlparser's prelude declares, as far as the converter can see them
PreludeTypes ==
    {ScalarDef(s_Int, <<>>), ScalarDef(s_Float, <<>>), ScalarDef(s_String, <<>>),
     ScalarDef(s_Boolean, <<>>), ScalarDef(s_ID, <<>>),
     Definition("OBJECT", s_uuSchema, <<Field(<<"t", "y", "p", "e", "s">>,
                                               ListOfNN(NamedNN(s_uuType)), <<>>)>>),
     Definition("OBJECT", s_uuType, <<Field(s_name, Named(s_String), <<>>)>>)}

\* the fields gqlparser appends to the Query type
IntrospectionFields ==
    <<Field(s_uuschema, NamedNN(s_uuSchema), <<>>),
      Field(s_uutype, Named(s_uuType), <<Arg(s_name, NamedNN(s_String))>>)>>

ty_User ==
    Definition("OBJECT", s_User,
        <<Field(s_id, NamedNN(s_ID), <<>>),
          Field(s_name, Named(s_String), <<>>),
          Field(s_posts, ListOfNN(NamedNN(s_Post)), <<>>),
          Field(s_tags, ListOf(NamedNN(s_String)), <<>>)>>)
ty_Post1 ==
    Definition("OBJECT", s_Post,
        <<Field(s_id, NamedNN(s_ID), <<>>),
          FieldD(s_title, NamedNN(s_String), <<>>, <<>>,
                 <<Directive("deprecated", <<DirArg("reason", <<"Use name">>)>>)>>),
          Field(s_author, NamedNN(s_User), <<>>)>>)
ty_Post2 ==
    Definition("OBJECT", s_Post,
        <<Field(s_id, NamedNN(s_ID), <<>>),
          Field(s_author, NamedNN(s_User), <<>>),
          Field(s_authorId, Named(s_Int), <<>>),
          Field(s_uid, NamedNN(s_UUID), <<>>)>>)
ty_UUID ==
    ScalarDef(s_UUID,
        <<Directive("specifiedBy",
                    <<DirArg("url", <<"https://tools.ietf.org/html/">> \o s_rfc4122)>>)>>)
ty_Key ==
    Definition("OBJECT", s_Key,
        <<Field(s_id, NamedNN(s_ID), <<>>),
          Field(s_parts, ListOfNN(NamedNN(s_Part)), <<>>)>>)
ty_Part ==
    Definition("OBJECT", s_Part,
        <<Field(s_id, NamedNN(s_ID), <<>>), Field(s_key, Named(s_Key), <<>>)>>)
ty_PostInput ==
    Definition("INPUT_OBJECT", s_PostInput,
        <<Field(s_title, NamedNN(s_String), <<>>),
          Field(s_tags, ListOf(NamedNN(s_String)), <<>>),
          Field(s_role, Named(s_Role), <<>>)>>)
ty_Role == [Definition("ENUM", s_Role, <<>>) EXCEPT !.EnumValues = <<s_ADMIN, s_GUEST>>]
ty_Node == Definition("INTERFACE", s_Node, <<Field(s_id, NamedNN(s_ID), <<>>)>>)
ty_SearchResult == [Definition("UNION", s_SearchResult, <<>>) EXCEPT !.Types = <<s_User, s_Post>>]

TypeSets ==
    {{ty_User, ty_Post1},
     {ty_User, ty_Post2, ty_UUID},
     {ty_User, ty_Post1, ty_Key, ty_Part, ty_PostInput, ty_Role},
     {ty_User, ty_Post2, ty_UUID, ty_Node, ty_SearchResult, ty_Role}}

QueryPool ==
    <<Field(s_users, ListOfNN(NamedNN(s_User)), <<>>),
      Field(s_user, Named(s_User), <<Arg(s_id, NamedNN(s_ID))>>),
      Field(s_posts, ListOfNN(NamedNN(s_Post)), <<Arg(s_limit, Named(s_Int))>>),
      Field(s_post, Named(s_Post), <<Arg(s_id, NamedNN(s_ID))>>),
      FieldD(s_me, Named(s_User), <<>>, <<>>,
             <<Directive("deprecated", <<DirArg("reason", <<"Use user">>)>>)>>)>>

MutationPool ==
    <<Field(s_createUser, NamedNN(s_User), <<Arg(s_name, NamedNN(s_String))>>),
      Field(s_createuser, NamedNN(s_User), <<Arg(s_name, NamedNN(s_String))>>),
      Field(s_updateUser, Named(s_User),
            <<Arg(s_id, NamedNN(s_ID)), Arg(s_name, Named(s_String))>>),
      Field(s_updateuser, Named(s_User),
            <<Arg(s_id, NamedNN(s_ID)), Arg(s_name, Named(s_String))>>),
      Field(s_deleteUser, NamedNN(s_Boolean), <<Arg(s_id, NamedNN(s_ID))>>),
      Field(s_addComment, Named(s_Post), <<Arg(s_text, NamedNN(s_String))>>)>>

SubscriptionOptions ==
    {<<>>,
     <<Field(s_messageStream, NamedNN(s_Post),
             <<Arg(s_channelId, NamedNN(s_ID)), Arg(s_userId, Named(s_ID))>>)>>,
     <<Field(s_ticks, NamedNN(s_Int), <<>>),
       Field(s_messageStream, ListOf(NamedNN(s_Post)),
             <<Arg(s_limit, Named(s_Int)), Arg(s_channelId, NamedNN(s_ID)),
               Arg(s_userId, NamedNN(s_ID)), Arg(s_tags, ListOf(NamedNN(s_String)))>>)>>,
     <<Field(s_user, Named(s_User), <<Arg(s_limit, Named(s_Int))>>)>>}

\* the subsequences of pool with at most k elements
SubSeqs(pool, k) ==
    LET pick(S) ==
            LET F[i \in 0..Len(pool)] ==
                    IF i = 0 THEN <<>>
                    ELSE IF i \in S THEN Append(F[i - 1], pool[i]) ELSE F[i - 1]
            IN  F[Len(pool)]
    IN  {pick(S) : S \in {T \in SUBSET DOMAIN pool : Cardinality(T) <= k}}

\* gqlparser.LoadSchema on a text that parses: the schema with the given root fields
\* (a root type without a field is not declared) and the given other types
ParsedSchema(q, m, s, types) ==
    LET roots == (IF q # <<>> THEN {Definition("OBJECT", s_Query, q \o IntrospectionFields)} ELSE {})
                 \cup (IF m # <<>> THEN {Definition("OBJECT", s_Mutation, m)} ELSE {})
                 \cup (IF s # <<>> THEN {Definition("OBJECT", s_Subscription, s)} ELSE {})
        defs == PreludeTypes \cup types \cup roots
    IN  [Types |-> [n \in {d.Name : d \in defs} |-> CHOOSE d \in defs : d.Name = n],
         Query |-> IF q # <<>> THEN Some(s_Query) ELSE Nil,
         Mutation |-> IF m # <<>> THEN Some(s_Mutation) ELSE Nil,
         Subscription |-> IF s # <<>> THEN Some(s_Subscription) ELSE Nil]

\* the leading lines of a schema text, up to its first declaration
Headers ==
    {<<<<"type ">>>>,
     <<<<TQ, "B", "l", "o", "g", " ", "A", "P", "I", TQ>>, <<"type ">>>>}

\* a schema text: its leading lines and what the parser makes of it
GoodSource(lines, q, m, s, types) ==
    [lines |-> lines, ast |-> Some(ParsedSchema(q, m, s, types)), err |-> <<>>]
BadSource ==
    [lines |-> <<<<"type ">>>>, ast |-> Nil, err |-> <<"input:1: Expected Name, found <EOF>">>]

\* schemas in which two root fields are written to one path: a Mutation field users
\* next to the users list query and createUser, and a Subscription field user next to
\* the Query field user
ClashInputs ==
    {[config |-> DefaultConfig,
      source |-> GoodSource(<<<<"type ">>>>, <<QueryPool[1]>>,
                            <<MutationPool[1],
                              Field(s_users, Named(s_User), <<Arg(s_name, Named(s_String))>>)>>,
                            <<>>, {ty_User, ty_Post1})],
     [config |-> NoDetectConfig,
      source |-> GoodSource(<<<<"type ">>>>, <<QueryPool[2]>>, <<MutationPool[6]>>,
                            <<Field(s_user, Named(s_User), <<Arg(s_limit, Named(s_Int))>>)>>,
                            {ty_User, ty_Post1})]}

\* a schema whose resource word ends in "ie": movies, movie and createMovie
s_movies == <<"m", "o", "v", "i", "e", "s">>
s_movie == <<"m", "o", "v", "i", "e">>
s_Movie == <<"M", "o", "v", "i", "e">>
s_createMovie == <<"c", "r", "e", "a", "t", "e", "M", "o", "v", "i", "e">>
s_sequel == <<"s", "e", "q", "u", "e", "l">>
ty_Movie ==
    Definition("OBJECT", s_Movie,
        <<Field(s_id, NamedNN(s_ID), <<>>), Field(s_sequel, Named(s_Movie), <<>>)>>)
WordInputs ==
    {[config |-> DefaultConfig,
      source |-> GoodSource(<<<<"type ">>>>,
                            <<Field(s_movies, ListOfNN(NamedNN(s_Movie)), <<>>),
                              Field(s_movie, Named(s_Movie), <<Arg(s_id, NamedNN(s_ID))>>)>>,
                            <<Field(s_createMovie, NamedNN(s_Movie),
                                    <<Arg(s_title, NamedNN(s_String))>>)>>,
                            <<>>, {ty_User, ty_Post1, ty_Movie})]}

\* a schema whose list query returns a summary type and whose get query the full type
s_UserSummary == <<"U", "s", "e", "r", "S", "u", "m", "m", "a", "r", "y">>
ty_UserSummary == Definition("OBJECT", s_UserSummary, <<Field(s_id, NamedNN(s_ID), <<>>)>>)
OrderInputs ==
    {[config |-> DefaultConfig,
      source |-> GoodSource(<<<<"type ">>>>,
                            <<Field(s_users, ListOfNN(NamedNN(s_UserSummary)), <<>>),
                              QueryPool[2]>>,
                            <<MutationPool[1], MutationPool[3]>>,
                            <<>>, {ty_User, ty_Post1, ty_UserSummary})]}

\* a schema whose root fields all carry @deprecated, with and without a reason
Deprecated(reason) ==
    <<Directive("deprecated", IF reason = <<>> THEN <<>> ELSE <<DirArg("reason", reason)>>)>>
DeprecatedInputs ==
    {[config |-> cfg,
      source |-> GoodSource(<<<<"type ">>>>,
                            <<FieldD(s_users, ListOfNN(NamedNN(s_User)), <<>>, <<>>,
                                     Deprecated(<<"Use members">>)),
                              FieldD(s_user, Named(s_User), <<Arg(s_id, NamedNN(s_ID))>>,
                                     <<>>, Deprecated(<<>>))>>,
                            <<FieldD(s_createUser, NamedNN(s_User),
                                     <<Arg(s_name, NamedNN(s_String))>>, <<>>,
                                     Deprecated(<<"Use addMember">>))>>,
                            <<FieldD(s_ticks, NamedNN(s_Int), <<>>, <<>>,
                                     Deprecated(<<"Use clock">>))>>,
                            {ty_User, ty_Post1})] :
        cfg \in {DefaultConfig, NoDetectConfig}}

\* leading lines that describe the schema: a triple-quoted block on several lines,
\* one with an empty line inside, one on a single line, and comment lines
DescriptionHeaders ==
    {<<<<TQ>>, <<"B", "l", "o", "g", " ", "A", "P", "I">>,
       <<" ", " ", "P", "o", "s", "t", "s">>, <<"a", "n", "d", " ", "m", "o", "r", "e">>,
       <<TQ>>, <<"type ">>>>,
     <<<<TQ>>, <<"B", "l", "o", "g">>, <<>>, <<"P", "o", "s", "t", "s">>, <<TQ>>, <<"type ">>>>,
     <<<<TQ, " ", "B", "l", "o", "g", " ", TQ>>, <<"type ">>>>,
     <<<<"#", " ", "B", "l", "o", "g", " ", "A", "P", "I">>, <<"#", " ", "P", "o", "s", "t", "s">>,
       <<"type ">>>>,
     <<<<"#", "B", "l", "o", "g">>, <<>>, <<"type ">>>>}
DescriptionInputs ==
    {[config |-> cfg,
      source |-> GoodSource(h, SubSeq(QueryPool, 1, 1), <<>>, <<>>, {ty_User, ty_Post1})] :
        cfg \in {DefaultConfig, PrefixConfig}, h \in DescriptionHeaders}

\* a resource with all five operations, its delete mutation with one argument or two
CrudInputs ==
    {[config |-> cfg,
      source |-> GoodSource(<<<<"type ">>>>, SubSeq(QueryPool, 1, 2),
                            <<MutationPool[1], MutationPool[3],
                              Field(s_deleteUser, NamedNN(s_Boolean), args)>>,
                            <<>>, {ty_User, ty_Post1})] :
        cfg \in {DefaultConfig, PrefixConfig},
        args \in {<<Arg(s_id, NamedNN(s_ID))>>,
                  <<Arg(s_id, NamedNN(s_ID)), Arg(s_name, Named(s_String))>>,
                  <<Arg(s_name, NamedNN(s_String))>>}}

\* root fields with descriptions: "List users. Old ones", "Get it: now - ok",
\* "Find a - b. c", "Add one" and "the clock; fast"
DescribedInputs ==
    {[config |-> cfg,
      source |-> GoodSource(<<<<"type ">>>>,
                            <<FieldD(s_users, ListOfNN(NamedNN(s_User)), <<>>,
                                     <<"L", "i", "s", "t", " ", "u", "s", "e", "r", "s", ".", " ",
                                       "O", "l", "d", " ", "o", "n", "e", "s">>, <<>>),
                              FieldD(s_user, Named(s_User), <<Arg(s_id, NamedNN(s_ID))>>,
                                     <<"G", "e", "t", " ", "i", "t", ":", " ", "n", "o", "w",
                                       " ", "-", " ", "o", "k">>, <<>>),
                              FieldD(s_me, Named(s_User), <<>>,
                                     <<"F", "i", "n", "d", " ", "a", " ", "-", " ", "b", ".",
                                       " ", "c">>, <<>>)>>,
                            <<FieldD(s_addComment, Named(s_Post),
                                     <<Arg(s_text, NamedNN(s_String))>>,
                                     <<"A", "d", "d", " ", "o", "n", "e">>, <<>>)>>,
                            <<FieldD(s_ticks, NamedNN(s_Int), <<>>,
                                     <<"t", "h", "e", " ", "c", "l", "o", "c", "k", ";", " ",
                                       "f", "a", "s", "t">>, <<>>)>>,
                            {ty_User, ty_Post1})] :
        cfg \in {DefaultConfig, NoDetectConfig}}

\* an interface with a non-null scalar, a nullable scalar, a reference and an object
\* list among its fields: interface Owned { id: ID!  name: String  owner: User!
\* posts: [Post!]! }
s_Owned == <<"O", "w", "n", "e", "d">>
s_owner == <<"o", "w", "n", "e", "r">>
ty_Owned ==
    Definition("INTERFACE", s_Owned,
        <<Field(s_id, NamedNN(s_ID), <<>>),
          Field(s_name, Named(s_String), <<>>),
          Field(s_owner, NamedNN(s_User), <<>>),
          Field(s_posts, ListOfNN(NamedNN(s_Post)), <<>>)>>)
InterfaceInputs ==
    {[config |-> cfg,
      source |-> GoodSource(<<<<"type ">>>>, SubSeq(QueryPool, 1, 2), m, <<>>,
                            {ty_User, ty_Post1, ty_Owned, ty_Node})] :
        cfg \in {DefaultConfig, NoDetectConfig},
        m \in {<<>>, SubSeq(MutationPool, 1, 1)}}

\* object and input-object types with deprecated fields: a scalar, a reference and a
\* list of objects.  type Note { id: ID!  text: String @deprecated
\* author: User @deprecated(reason: "Use owner")  posts: [Post!]! @deprecated }
s_Note == <<"N", "o", "t", "e">>
s_NoteInput == <<"N", "o", "t", "e", "I", "n", "p", "u", "t">>
NoteFields ==
    <<Field(s_id, NamedNN(s_ID), <<>>),
      FieldD(s_text, Named(s_String), <<>>, <<>>, Deprecated(<<>>)),
      FieldD(s_author, Named(s_User), <<>>, <<>>, Deprecated(<<"Use owner">>)),
      FieldD(s_posts, ListOfNN(NamedNN(s_Post)), <<>>, <<>>, Deprecated(<<>>))>>
ty_Note == Definition("OBJECT", s_Note, NoteFields)
ty_NoteInput == Definition("INPUT_OBJECT", s_NoteInput, SubSeq(NoteFields, 1, 2))
DeprecatedFieldInputs ==
    {[config |-> cfg,
      source |-> GoodSource(<<<<"type ">>>>, SubSeq(QueryPool, 1, 2), <<>>, <<>>, types)] :
        cfg \in {DefaultConfig, CustomConfig},
        types \in {{ty_User, ty_Post1, ty_Note}, {ty_User, ty_Post1, ty_NoteInput}}}

\* lists of scalars where the converter expects lists of objects: a Query list of
\* String with its create mutation, and a field that is a list of a custom scalar.
\* type Query { tags: [String!]! }  type Mutation { createTag(name: String!): String }
\* scalar UUID  type Event { id: ID!  uids: [UUID!]! }
s_createTag == <<"c", "r", "e", "a", "t", "e", "T", "a", "g">>
s_Event == <<"E", "v", "e", "n", "t">>
s_uids == <<"u", "i", "d", "s">>
ty_Event ==
    Definition("OBJECT", s_Event,
        <<Field(s_id, NamedNN(s_ID), <<>>), Field(s_uids, ListOfNN(NamedNN(s_UUID)), <<>>)>>)
ScalarListInputs ==
    {[config |-> DefaultConfig,
      source |-> GoodSource(<<<<"type ">>>>,
                            <<Field(s_tags, ListOfNN(NamedNN(s_String)), <<>>)>>,
                            <<Field(s_createTag, Named(s_String),
                                    <<Arg(s_name, NamedNN(s_String))>>)>>,
                            <<>>, {ty_User, ty_Post1})],
     [config |-> DefaultConfig,
      source |-> GoodSource(<<<<"type ">>>>, SubSeq(QueryPool, 1, 2), <<>>, <<>>,
                            {ty_User, ty_Post1, ty_UUID, ty_Event})]}

\* a list query with an argument, consolidated or not: type Query { posts(limit: Int):
\* [Post!]!  post(id: ID!): Post }  type Mutation { createPost(title: String!): Post }
s_createPost == <<"c", "r", "e", "a", "t", "e", "P", "o", "s", "t">>
ListArgumentInputs ==
    {[config |-> cfg,
      source |-> GoodSource(<<<<"type ">>>>, SubSeq(QueryPool, 3, 4),
                            <<Field(s_createPost, Named(s_Post),
                                    <<Arg(s_title, NamedNN(s_String))>>)>>,
                            <<>>, {ty_User, ty_Post1})] :
        cfg \in {DefaultConfig, NoDetectConfig, PrefixConfig}}

\* the runs of the model: a configuration and a schema text
Inputs ==
    ClashInputs \cup WordInputs \cup OrderInputs \cup DeprecatedInputs \cup DescriptionInputs \cup
    CrudInputs \cup DescribedInputs \cup InterfaceInputs \cup DeprecatedFieldInputs \cup
    ScalarListInputs \cup ListArgumentInputs \cup
    {[config |-> cfg, source |-> GoodSource(CHOOSE h \in Headers : Len(h) = 1, q, m, <<>>,
                                            {ty_User, ty_Post1})] :
        cfg \in {DefaultConfig, NoDetectConfig, PrefixConfig},
        q \in SubSeqs(QueryPool, MaxQueryFields),
        m \in SubSeqs(MutationPool, MaxMutationFields)}
    \cup
    {[config |-> cfg, source |-> GoodSource(h, q, m, s, types)] :
        cfg \in {DefaultConfig, CustomConfig, PrefixConfig},
        h \in Headers,
        q \in {<<>>, SubSeq(QueryPool, 1, 2)},
        m \in {<<>>, SubSeq(MutationPool, 1, 1)},
        s \in SubscriptionOptions,
        types \in TypeSets}

(***************************************************************************)
(* Convert, pass by pass                                                   *)
(***************************************************************************)
\* no second goroutine
NoOther ==
    [pc |-> "none", input |-> BadSource, source |-> BadSource, restPatterns |-> <<>>,
     schema |-> Nil, aliased |-> FALSE, before |-> [schema |-> Nil, doc |-> Nil]]

\* New, and the schema text the caller is going to convert
Init ==
    \E in \in Inputs :
        /\ config = in.config
        /\ input = in.source
        /\ c_schema = Nil
        /\ schema = Nil
        /\ aliased = FALSE
        /\ c_doc = Nil
        /\ source = in.source
        /\ pc = "idle"
        /\ restPatterns = <<>>
        /\ returned = <<>>
        /\ before = [schema |-> Nil, doc |-> Nil]
        /\ other = NoOther

\* Convert with the parser's result stored before the error is looked at
schemaAfterParseStoredFirst(old, src) == src.ast

\* Convert, lines 591-598: Converter.schema after the parse of src
schemaAfterParse(old, src) == IF src.ast = Nil THEN old ELSE src.ast

\* Convert, line 595: the error returned for a text that does not parse
parseError(src) == <<"failed to parse GraphQL schema: ">> \o src.err

\* Convert is called with a schema text and parses it (lines 589-598)
Call ==
    /\ pc = "idle"
    /\ Len(returned) + (IF other.pc \in {"none", "idle"} THEN 0 ELSE 1) < MaxCalls
    /\ \E src \in {input, BadSource} :
          /\ source' = src
          /\ before' = [schema |-> c_schema, doc |-> c_doc]
          /\ schema' = src.ast
          /\ c_schema' = schemaAfterParse(c_schema, src)
          /\ aliased' = (src.ast # Nil)
          /\ other' = IF src.ast # Nil THEN [other EXCEPT !.aliased = FALSE] ELSE other
          /\ IF src.ast = Nil
             THEN /\ returned' = Append(returned,
                                   [doc |-> Nil, err |-> Some(parseError(src)), source |-> src])
                  /\ pc' = "idle"
             ELSE /\ returned' = returned
                  /\ pc' = "init"
    /\ restPatterns' = <<>>
    /\ UNCHANGED <<config, input, c_doc>>

\* Convert, lines 600-644: the document is created with its metadata
InitDoc ==
    /\ pc = "init"
    /\ c_doc' = Some(newDocument(source.lines))
    /\ pc' = "detect"
    /\ UNCHANGED <<config, input, c_schema, schema, aliased, source, restPatterns, returned,
                   before, other>>

\* Convert, lines 646-650
Detect ==
    /\ pc = "detect"
    /\ \E ord \in PluralOrders :
          restPatterns' = IF config.DetectRESTPatterns THEN detectRESTPatterns(ord) ELSE <<>>
    /\ pc' = "types"
    /\ UNCHANGED <<config, input, c_schema, schema, aliased, c_doc, source, returned, before,
                   other>>

\* Convert, lines 653-667: the component schema of the type named n, or nil
componentSchema(ord, n) ==
    LET typeDef == localTypes[n]
    IN  IF isBuiltInType(n) THEN Nil
        ELSE IF typeDef.Kind = "ENUM" THEN Some(convertEnumType(typeDef))
        ELSE IF typeDef.Kind = "UNION" THEN Some(convertUnionType(typeDef))
        ELSE IF typeDef.Kind = "INTERFACE" THEN Some(convertInterfaceType(typeDef))
        ELSE IF typeDef.Kind \in {"OBJECT", "INPUT_OBJECT"}
             THEN Some(convertType(ord, typeDef).schema)
        ELSE Nil

\* Convert, lines 653-667: the fields of the type named n after the loop
fieldsAfterTypes(ord, n) ==
    IF ~isBuiltInType(n) /\ localTypes[n].Kind \in {"OBJECT", "INPUT_OBJECT"}
    THEN convertType(ord, localTypes[n]).fields
    ELSE localTypes[n].Fields

\* Convert, lines 653-667: every declared type is converted.  A type's schema is
\* stored under its own name and is built from that type alone, so the order of the
\* loop over the type map does not show.
ConvertTypes ==
    /\ pc = "types"
    /\ \E ord \in PluralOrders :
          /\ LET converted == {x \in DOMAIN localTypes : componentSchema(ord, x) # Nil}
             IN  c_doc' = Some([c_doc[1] EXCEPT !.Schemas =
                    [n \in DOMAIN @ \cup converted |->
                        IF n \in converted THEN componentSchema(ord, n)[1] ELSE @[n]]])
          /\ schema' = Some([schema[1] EXCEPT !.Types =
                 [n \in DOMAIN localTypes |->
                     [localTypes[n] EXCEPT !.Fields = fieldsAfterTypes(ord, n)]]])
    /\ c_schema' = IF aliased THEN schema' ELSE c_schema
    /\ pc' = "queries"
    /\ UNCHANGED <<config, input, aliased, source, restPatterns, returned, before, other>>

\* Convert, lines 670-672
ConvertQueries ==
    /\ pc = "queries"
    /\ IF schema[1].Query # Nil
       THEN \E pord \in Perms(DOMAIN restPatterns), tord \in Perms(subResourceTypes),
               ord \in PluralOrders :
                c_doc' = Some([c_doc[1] EXCEPT !.Paths =
                                  convertQueries(@, restPatterns, pord, tord, ord)])
       ELSE c_doc' = c_doc
    /\ pc' = "mutations"
    /\ UNCHANGED <<config, input, c_schema, schema, aliased, source, restPatterns, returned,
                   before, other>>

\* Convert, lines 673-675
ConvertMutations ==
    /\ pc = "mutations"
    /\ IF schema[1].Mutation # Nil
       THEN \E pord \in Perms(DOMAIN restPatterns) :
                c_doc' = Some([c_doc[1] EXCEPT !.Paths = convertMutations(@, restPatterns, pord)])
       ELSE c_doc' = c_doc
    /\ pc' = "subscriptions"
    /\ UNCHANGED <<config, input, c_schema, schema, aliased, source, restPatterns, returned,
                   before, other>>

\* Convert, lines 676-680: the subscriptions, and the document is returned
ConvertSubscriptions ==
    /\ pc = "subscriptions"
    /\ c_doc' = IF schema[1].Subscription # Nil
                THEN Some([c_doc[1] EXCEPT !.Paths = convertSubscriptions(@)])
                ELSE c_doc
    /\ returned' = Append(returned, [doc |-> c_doc', err |-> Nil, source |-> source])
    /\ pc' = "idle"
    /\ UNCHANGED <<config, input, c_schema, schema, aliased, source, restPatterns, before,
                   other>>

Next ==
    \/ Call
    \/ InitDoc
    \/ Detect
    \/ ConvertTypes
    \/ ConvertQueries
    \/ ConvertMutations
    \/ ConvertSubscriptions

Spec == Init /\ [][Next]_vars

(***************************************************************************)
(* two goroutines calling Convert on one Converter                         *)
(***************************************************************************)
\* the schema texts the two goroutines convert
SharedSources ==
    {GoodSource(<<<<"type ">>>>, SubSeq(QueryPool, 1, 2), SubSeq(MutationPool, 1, 1), <<>>,
                {ty_User, ty_Post1}),
     GoodSource(<<<<TQ, "B", "l", "o", "g", " ", "A", "P", "I", TQ>>, <<"type ">>>>,
                SubSeq(QueryPool, 3, 4), <<MutationPool[6]>>,
                <<Field(s_messageStream, NamedNN(s_Post),
                        <<Arg(s_channelId, NamedNN(s_ID)), Arg(s_userId, Named(s_ID))>>)>>,
                {ty_User, ty_Post2, ty_UUID}),
     GoodSource(<<<<"type ">>>>, <<>>, <<>>, <<>>, {ty_User, ty_Key, ty_Part})}

\* New, and two goroutines that hold the Converter and a schema text each
InitShared ==
    \E cfg \in {DefaultConfig, PrefixConfig}, a \in SharedSources, b \in SharedSources :
        /\ a # b
        /\ config = cfg
        /\ input = a
        /\ c_schema = Nil
        /\ schema = Nil
        /\ aliased = FALSE
        /\ c_doc = Nil
        /\ source = a
        /\ pc = "idle"
        /\ restPatterns = <<>>
        /\ returned = <<>>
        /\ before = [schema |-> Nil, doc |-> Nil]
        /\ other = [NoOther EXCEPT !.pc = "idle", !.input = b, !.source = b]

\* the scheduler runs the other goroutine: the two sets of locals change places,
\* the Converter's fields stay
Yield ==
    /\ other.pc # "none"
    /\ pc' = other.pc
    /\ input' = other.input
    /\ source' = other.source
    /\ restPatterns' = other.restPatterns
    /\ schema' = other.schema
    /\ aliased' = other.aliased
    /\ before' = other.before
    /\ other' = [pc |-> pc, input |-> input, source |-> source,
                 restPatterns |-> restPatterns, schema |-> schema, aliased |-> aliased,
                 before |-> before]
    /\ UNCHANGED <<config, c_schema, c_doc, returned>>

NextShared ==
    \/ Call
    \/ InitDoc
    \/ Detect
    \/ ConvertTypes
    \/ ConvertQueries
    \/ ConvertMutations
    \/ ConvertSubscriptions
    \/ Yield

SpecShared == InitShared /\ [][NextShared]_vars

(***************************************************************************)
(* reading a returned document                                             *)
(***************************************************************************)
\* the calls that returned a document
OkCalls == {i \in DOMAIN returned : returned[i].err = Nil}
DocOf(i) == returned[i].doc[1]
\* the schema as the parser returned it to call i
AstOf(i) == returned[i].source.ast[1]

\* the last call returned a document and no other call has begun
LastOk == pc = "idle" /\ returned # <<>> /\ returned[Len(returned)].err = Nil
LastDoc == DocOf(Len(returned))

Methods == {"Get", "Post", "Put", "Delete"}
HasOp(doc, path, method) == path \in DOMAIN doc.Paths /\ doc.Paths[path][method] # Nil
OpAt(doc, path, method) == doc.Paths[path][method][1]

\* the declared object and input-object types that get a component schema
SchemaTypes(ast) ==
    {n \in DOMAIN ast.Types :
        /\ n # s_Query /\ n # s_Mutation /\ n # s_Subscription /\ ~HasPrefix(n, s_uu)
        /\ ast.Types[n].Kind \in {"OBJECT", "INPUT_OBJECT"}}

BuiltInScalars == {s_Int, s_Float, s_String, s_Boolean, s_ID}
RootNames == {s_Query, s_Mutation, s_Subscription}

\* f is a list of a named type that is not one of the five built-in scalars
IsObjectList(f) ==
    f.Type.Elem # Nil /\ f.Type.Elem[1].NamedType # <<>>
    /\ f.Type.Elem[1].NamedType \notin BuiltInScalars

\* f is left out of its type's component schema
IsLeftOut(f) ==
    f.Type.Elem # Nil /\ f.Type.Elem[1].NamedType \notin BuiltInScalars
    /\ f.Type.Elem[1].NamedType \notin RootNames /\ ~HasPrefix(f.Type.Elem[1].NamedType, s_uu)

\* f is a single reference to a type that is not a built-in scalar
IsReference(f) ==
    f.Type.Elem = Nil /\ f.Type.NamedType \notin BuiltInScalars
    /\ f.Type.NamedType \notin RootNames /\ ~HasPrefix(f.Type.NamedType, s_uu)

KeyOf(f) == IF IsReference(f) THEN f.Name \o <<"I", "d">> ELSE f.Name

InSeq(x, seq) == \E i \in DOMAIN seq : seq[i] = x

(***************************************************************************)
(* C1                                                                      *)
(***************************************************************************)
\* the Mutation field create + Capitalize(resource) is declared
HasCreateField(r) ==
    \E i \in DOMAIN MutationFields :
        MutationFields[i].Name = <<"c", "r", "e", "a", "t", "e">> \o capitalize(r)

Candidates(ord) == mutationPass(queryPass(ord))

\* C2: every returned pattern has the list and the create flag; a candidate that
\* lacks one of them is not returned, and the document has none of its
\* consolidated operations (list, get, create, update, delete under its plural).
C2_OnlyListAndCreatePromoted ==
    /\ \A r \in DOMAIN restPatterns :
          "list" \in restPatterns[r].Operations /\ "create" \in restPatterns[r].Operations
    /\ (pc \notin {"idle", "init", "detect"}) =>
          \A ord \in PluralOrders : \A r \in DOMAIN Candidates(ord) :
              ("list" \notin Candidates(ord)[r].Operations
                 \/ "create" \notin Candidates(ord)[r].Operations)
              => r \notin DOMAIN restPatterns
    /\ LastOk =>
          \A ord \in PluralOrders : \A r \in DOMAIN Candidates(ord) :
              LET c == Candidates(ord)[r]
                  path == config.PathPrefix \o <<"/">> \o c.Plural
                  idPath == path \o <<"/", "{", "i", "d", "}">>
              IN  ("list" \notin c.Operations \/ "create" \notin c.Operations) =>
                     /\ ~HasOp(LastDoc, idPath, "Put")
                     /\ ~HasOp(LastDoc, idPath, "Delete")
                     /\ ~HasOp(LastDoc, path, "Post")
                     /\ HasOp(LastDoc, idPath, "Get") =>
                           OpAt(LastDoc, idPath, "Get").OperationID
                               # <<"g", "e", "t">> \o capitalize(r)
                     /\ HasOp(LastDoc, path, "Get") =>
                           OpAt(LastDoc, path, "Get").OperationID
                               # <<"l", "i", "s", "t">> \o capitalize(c.Plural)

\* C2 witness: a candidate with get and update but no list went through a whole
\* conversion without being returned
C2_Witness ==
    /\ LastOk
    /\ \E ord \in PluralOrders : \E r \in DOMAIN Candidates(ord) :
          /\ {"get", "update"} \subseteq Candidates(ord)[r].Operations
          /\ "list" \notin Candidates(ord)[r].Operations
          /\ r \notin DOMAIN restPatterns

(***************************************************************************)
(* C3                                                                      *)
(***************************************************************************)
JsonResponse(op) == op.Responses["200"].Content["application/json"].Schema[1]

\* C3: for every object type T and every field f of T that is a list of a
\* non-scalar named type, f is in neither the properties nor the required list of
\* T's component schema, and the document has GET /{plural(lower(T))}/{id}/{f}
\* returning an array of $ref to the element type.
C3_ListFieldBecomesSubResource ==
    \A i \in OkCalls :
        \A n \in {x \in SchemaTypes(AstOf(i)) : AstOf(i).Types[x].Kind = "OBJECT"} :
            \A k \in DOMAIN AstOf(i).Types[n].Fields :
                LET f == AstOf(i).Types[n].Fields[k]
                    sch == DocOf(i).Schemas[n]
                IN  IsObjectList(f) =>
                       /\ f.Name \notin DOMAIN sch.Properties
                       /\ ~InSeq(f.Name, sch.Required)
                       /\ \E ord \in PluralOrders :
                             LET path == config.PathPrefix \o <<"/">>
                                         \o pluralize(ord, ToLower(n))
                                         \o <<"/", "{", "i", "d", "}", "/">> \o f.Name
                             IN  /\ HasOp(DocOf(i), path, "Get")
                                 /\ JsonResponse(OpAt(DocOf(i), path, "Get"))
                                      = ArraySchema(RefSchema(f.Type.Elem[1].NamedType))

(***************************************************************************)
(* C4                                                                      *)
(***************************************************************************)
\* C4: for every object or input-object type T and every field f kept in T's
\* component schema, the key of f (f, or f+"Id" when reference-flattened) is in
\* T's required list if and only if f's type is non-null.
C4_RequiredIffNonNull ==
    \A i \in OkCalls :
        \A n \in SchemaTypes(AstOf(i)) :
            \A k \in DOMAIN AstOf(i).Types[n].Fields :
                LET f == AstOf(i).Types[n].Fields[k]
                IN  ~IsLeftOut(f) =>
                       (InSeq(KeyOf(f), DocOf(i).Schemas[n].Required) <=> f.Type.NonNull)

(***************************************************************************)
(* C5                                                                      *)
(***************************************************************************)
\* C5: in the component schema of an object or input-object type, a non-list field
\* f whose type is a declared object type appears only as a string property keyed
\* f+"Id" (the key f is absent), and no property is a $ref or an array of $ref.
C5_FlatComponentSchemas ==
    \A i \in OkCalls :
        \A n \in SchemaTypes(AstOf(i)) :
            LET props == DocOf(i).Schemas[n].Properties
                fs == AstOf(i).Types[n].Fields
            IN  /\ \A k \in DOMAIN fs :
                      (/\ fs[k].Type.Elem = Nil
                       /\ fs[k].Type.NamedType \in DOMAIN AstOf(i).Types
                       /\ AstOf(i).Types[fs[k].Type.NamedType].Kind = "OBJECT"
                       /\ fs[k].Type.NamedType \notin RootNames)
                      => /\ fs[k].Name \o <<"I", "d">> \in DOMAIN props
                         /\ props[fs[k].Name \o <<"I", "d">>].Type = <<"string">>
                         /\ fs[k].Name \notin DOMAIN props
                /\ \A key \in DOMAIN props :
                      /\ props[key].Ref = <<>>
                      /\ props[key].Items # Nil => props[key].Items[1].Ref = <<>>

(***************************************************************************)
(* C6                                                                      *)
(***************************************************************************)
Rfc4122Url == <<"https://tools.ietf.org/html/", "r", "f", "c", "4", "1", "2", "2">>

\* the type named n is a custom scalar declared @specifiedBy(url: Rfc4122Url)
IsUuidScalar(ast, n) ==
    /\ n \in DOMAIN ast.Types
    /\ ast.Types[n].Kind = "SCALAR"
    /\ \E d \in DOMAIN ast.Types[n].Directives :
          /\ ast.Types[n].Directives[d].Name = "specifiedBy"
          /\ \E a \in DOMAIN ast.Types[n].Directives[d].Arguments :
                /\ ast.Types[n].Directives[d].Arguments[a].Name = "url"
                /\ ast.Types[n].Directives[d].Arguments[a].Raw = Rfc4122Url

\* C6: the property of an object-type field whose type is a custom scalar declared
\* @specifiedBy(url: "https://tools.ietf.org/html/rfc4122") keeps the field's name,
\* has type string and format uuid, and its description ends with "Spec: <url>".
C6_SpecifiedByUuid ==
    \A i \in OkCalls :
        \A n \in {x \in SchemaTypes(AstOf(i)) : AstOf(i).Types[x].Kind = "OBJECT"} :
            \A k \in DOMAIN AstOf(i).Types[n].Fields :
                LET f == AstOf(i).Types[n].Fields[k]
                    props == DocOf(i).Schemas[n].Properties
                IN  (f.Type.Elem = Nil /\ IsUuidScalar(AstOf(i), f.Type.NamedType)) =>
                       /\ f.Name \in DOMAIN props
                       /\ props[f.Name].Type = <<"string">>
                       /\ props[f.Name].Format = <<"uuid">>
                       /\ HasSuffix(props[f.Name].Description, <<"Spec: ">> \o Rfc4122Url)

(***************************************************************************)
(* C7                                                                      *)
(***************************************************************************)
\* the Subscription fields of the schema text of call i that are not introspection
SubscriptionsOf(i) ==
    IF AstOf(i).Subscription = Nil THEN <<>>
    ELSE SelectSeq(AstOf(i).Types[AstOf(i).Subscription[1]].Fields,
                   LAMBDA f : ~HasPrefix(f.Name, s_uu))

\* the index of the first non-null argument, 0 when every argument is nullable
FirstNonNull(args) ==
    IF \E j \in DOMAIN args : args[j].Type.NonNull
    THEN CHOOSE j \in DOMAIN args :
            args[j].Type.NonNull /\ \A l \in 1..(j - 1) : ~args[l].Type.NonNull
    ELSE 0

\* the path C7 gives a Subscription field, under the configured path prefix
SubscriptionPathOf(f) ==
    config.PathPrefix \o <<"/">> \o f.Name
    \o (IF FirstNonNull(f.Arguments) = 0 THEN <<>>
        ELSE <<"/", "{">> \o f.Arguments[FirstNonNull(f.Arguments)].Name \o <<"}">>)

\* C7: every non-introspection Subscription field is a GET on /{fieldName}, or on
\* /{fieldName}/{a} when a is its first non-null argument; the operation has a as
\* its only path parameter (none without a), every other argument is a query
\* parameter whose required flag is the argument's non-nullness, and the 200
\* response has the one content type text/event-stream.
C7_SubscriptionPathAndParameters ==
    \A i \in OkCalls :
        \A k \in DOMAIN SubscriptionsOf(i) :
            LET f == SubscriptionsOf(i)[k]
                args == f.Arguments
                a == FirstNonNull(args)
                path == SubscriptionPathOf(f)
            IN  /\ HasOp(DocOf(i), path, "Get")
                /\ LET ps == OpAt(DocOf(i), path, "Get").Parameters
                       inPath == {j \in DOMAIN ps : ps[j].In = <<"path">>}
                   IN  /\ Len(ps) = Len(args)
                       /\ a = 0 => inPath = {}
                       /\ a # 0 => \E j \in DOMAIN ps :
                                      inPath = {j} /\ ps[j].Name = args[a].Name
                       /\ \A l \in DOMAIN args \ {a} :
                             \E j \in DOMAIN ps :
                                /\ ps[j].Name = args[l].Name
                                /\ ps[j].In = <<"query">>
                                /\ ps[j].Required = args[l].Type.NonNull
                /\ DOMAIN OpAt(DocOf(i), path, "Get").Responses["200"].Content
                     = {"text/event-stream"}

\* a returned document of a schema with a Subscription field that has two non-null
\* arguments, the first of them after a nullable one
C7_Witness ==
    \E i \in OkCalls : \E k \in DOMAIN SubscriptionsOf(i) :
        LET args == SubscriptionsOf(i)[k].Arguments
        IN  /\ FirstNonNull(args) > 1
            /\ \E l \in DOMAIN args : l > FirstNonNull(args) /\ args[l].Type.NonNull
            /\ HasOp(DocOf(i), SubscriptionPathOf(SubscriptionsOf(i)[k]), "Get")

(***************************************************************************)
(* C8                                                                      *)
(***************************************************************************)
\* C8: two calls of Convert on the same schema text with the same configuration
\* return equal documents.
C8_Deterministic ==
    \A i, j \in OkCalls :
        returned[i].source = returned[j].source => DocOf(i) = DocOf(j)

(***************************************************************************)
(* C9                                                                      *)
(***************************************************************************)
\* the last call has returned and the schema text it was given did not parse
LastFailed == pc = "idle" /\ returned # <<>> /\ returned[Len(returned)].source.ast = Nil

\* C9: a call whose schema text does not parse returns no document and an error
\* that wraps the parser's message, and leaves the Converter's schema and document
\* as they were before the call.
C9_ParseFailureLeavesConverter ==
    LastFailed =>
        LET r == returned[Len(returned)]
        IN  /\ r.doc = Nil
            /\ r.err # Nil
            /\ HasSuffix(r.err[1], r.source.err)
            /\ Len(r.err[1]) > Len(r.source.err)
            /\ c_schema = before.schema
            /\ c_doc = before.doc

\* a text that does not parse is given to a Converter that holds the schema and the
\* document of an earlier successful call
C9_Witness ==
    /\ LastFailed
    /\ Len(returned) = 2 /\ returned[1].err = Nil
    /\ c_schema # Nil /\ c_doc # Nil

(***************************************************************************)
(* C10                                                                     *)
(***************************************************************************)
\* the pattern operations built from a mutation prefix
PatternMutations ==
    {[op |-> "create", prefix |-> config.CRUDPrefixCreate, method |-> "Post", item |-> <<>>],
     [op |-> "update", prefix |-> config.CRUDPrefixUpdate, method |-> "Put",
      item |-> <<"/", "{", "i", "d", "}">>],
     [op |-> "delete", prefix |-> config.CRUDPrefixDelete, method |-> "Delete",
      item |-> <<"/", "{", "i", "d", "}">>]}

\* the Mutation fields whose name sets the flag m.op of the resource r
FlagSetters(m, r) ==
    {k \in DOMAIN MutationFields :
        /\ HasPrefix(MutationFields[k].Name, m.prefix)
        /\ uncapitalize(TrimPrefix(MutationFields[k].Name, m.prefix)) = r}

\* the flag m.op of the promoted resource r is set, but no Mutation field is named
\* <prefix>+Capitalize(resource)
Skipped(m, r) ==
    /\ m.op \in restPatterns[r].Operations
    /\ \A k \in DOMAIN MutationFields : MutationFields[k].Name # m.prefix \o capitalize(r)

\* C10: a skipped pattern operation leaves no operation and no path entry of its
\* own in the document (an entry at its path holds an operation of another source),
\* and every mutation that set the flag is emitted 1:1 as POST /{fieldName}.
C10_SkippedOperationLeavesNoEntry ==
    LastOk =>
        \A r \in DOMAIN restPatterns : \A m \in PatternMutations :
            Skipped(m, r) =>
                LET path == config.PathPrefix \o <<"/">> \o restPatterns[r].Plural \o m.item
                IN  /\ ~HasOp(LastDoc, path, m.method)
                    /\ path \in DOMAIN LastDoc.Paths =>
                          \E meth \in Methods : LastDoc.Paths[path][meth] # Nil
                    /\ \A k \in FlagSetters(m, r) :
                          LET p == config.PathPrefix \o <<"/">> \o MutationFields[k].Name
                          IN  /\ HasOp(LastDoc, p, "Post")
                              /\ OpAt(LastDoc, p, "Post").OperationID = MutationFields[k].Name

(***************************************************************************)
(* C11                                                                     *)
(***************************************************************************)
\* detection has just run on the schema of the call in progress
Detected == pc = "types" /\ config.DetectRESTPatterns

\* the flags a mutation pass may set, each with its configured prefix
PrefixFlags ==
    {<<"create", config.CRUDPrefixCreate>>, <<"update", config.CRUDPrefixUpdate>>,
     <<"delete", config.CRUDPrefixDelete>>}

\* some Mutation field is named prefix + X with uncapitalize(X) = r
SetsFlag(pf, r) ==
    \E k \in DOMAIN MutationFields :
        /\ HasPrefix(MutationFields[k].Name, pf[2])
        /\ uncapitalize(TrimPrefix(MutationFields[k].Name, pf[2])) = r

\* C11: the candidates after the mutation pass are the candidates after the query
\* pass, each with the same resource name, plural and bound type; the mutation pass
\* only adds create, update or delete flags, and each added flag comes from a
\* Mutation field named <prefix>X with uncapitalize(X) the candidate's name.
C11_MutationPassCreatesNoPattern ==
    Detected =>
        \A ord \in PluralOrders :
            LET q == queryPass(ord)
                m == mutationPass(q)
            IN  /\ DOMAIN m = DOMAIN q
                /\ \A r \in DOMAIN q :
                      /\ m[r].Resource = q[r].Resource
                      /\ m[r].Plural = q[r].Plural
                      /\ m[r].Type = q[r].Type
                      /\ q[r].Operations \subseteq m[r].Operations
                      /\ \A op \in m[r].Operations \ q[r].Operations :
                            \E pf \in PrefixFlags : pf[1] = op /\ SetsFlag(pf, r)

\* detection ran on a schema with a create mutation whose resource is no candidate
\* and another one whose resource is
C11_Witness ==
    /\ Detected
    /\ \E ord \in PluralOrders :
          /\ \E k \in DOMAIN MutationFields :
                /\ HasPrefix(MutationFields[k].Name, config.CRUDPrefixCreate)
                /\ uncapitalize(TrimPrefix(MutationFields[k].Name, config.CRUDPrefixCreate))
                     \notin DOMAIN queryPass(ord)
          /\ DOMAIN queryPass(ord) # {}

(***************************************************************************)
(* C12                                                                     *)
(***************************************************************************)
\* where the document holds an operation made from the Mutation field named n
MutationLocations(doc, n) ==
    {loc \in (DOMAIN doc.Paths) \X {"Post", "Put", "Delete"} :
        /\ doc.Paths[loc[1]][loc[2]] # Nil
        /\ doc.Paths[loc[1]][loc[2]][1].OperationID = n}

\* the place of the pattern operation that locates the Mutation field named n
PatternLocations(n) ==
    {<<config.PathPrefix \o <<"/">> \o restPatterns[r].Plural \o m.item, m.method>> :
        <<r, m>> \in {x \in (DOMAIN restPatterns) \X PatternMutations :
                        /\ x[2].op \in restPatterns[x[1]].Operations
                        /\ n = x[2].prefix \o capitalize(x[1])}}

\* C12: every root Mutation field is emitted exactly once, as the POST, PUT or
\* DELETE operation of the promoted pattern that locates it by name or else as
\* POST /{fieldName}.
C12_MutationEmittedOnce ==
    LastOk =>
        \A k \in DOMAIN MutationFields :
            LET n == MutationFields[k].Name
                locs == MutationLocations(LastDoc, n)
            IN  /\ Cardinality(locs) = 1
                /\ IF PatternLocations(n) # {}
                   THEN locs \subseteq PatternLocations(n)
                   ELSE locs = {<<config.PathPrefix \o <<"/">> \o n, "Post">>}

(***************************************************************************)
(* C13                                                                     *)
(***************************************************************************)
\* the document has the operation of the root field named n at method of /{n}
OneToOne(doc, n, method) ==
    /\ HasOp(doc, config.PathPrefix \o <<"/">> \o n, method)
    /\ OpAt(doc, config.PathPrefix \o <<"/">> \o n, method).OperationID = n

\* C13: with DetectRESTPatterns false no pattern is detected, every
\* non-introspection Query field yields GET /{fieldName}, every Mutation field
\* yields POST /{fieldName}, and the document has no PUT and no DELETE operation.
C13_NoDetectionNoConsolidation ==
    (LastOk /\ ~config.DetectRESTPatterns) =>
        /\ restPatterns = <<>>
        /\ \A k \in DOMAIN QueryFields :
              ~HasPrefix(QueryFields[k].Name, s_uu) => OneToOne(LastDoc, QueryFields[k].Name, "Get")
        /\ \A k \in DOMAIN MutationFields : OneToOne(LastDoc, MutationFields[k].Name, "Post")
        /\ \A p \in DOMAIN LastDoc.Paths :
              LastDoc.Paths[p]["Put"] = Nil /\ LastDoc.Paths[p]["Delete"] = Nil

(***************************************************************************)
(* C14                                                                     *)
(***************************************************************************)
\* a name no schema of the model declares
s_Undeclared == <<"G", "h", "o", "s", "t">>

\* the type references convertFieldType is asked about: every declared name and an
\* undeclared one, nullable or not, bare, in a list and in a list of lists
TypeRefs ==
    LET names == DOMAIN Types \cup {s_Undeclared}
        bare == {Named(n) : n \in names} \cup {NamedNN(n) : n \in names}
        lists == {ListOf(t) : t \in bare} \cup {ListOfNN(t) : t \in bare}
    IN  bare \cup lists \cup {ListOf(t) : t \in lists}

\* the schema C14 gives a named type
NamedSchema(n) ==
    CASE n = s_Int -> [Schema0 EXCEPT !.Type = <<"integer">>, !.Format = <<"int32">>]
      [] n = s_Float -> [Schema0 EXCEPT !.Type = <<"number">>, !.Format = <<"double">>]
      [] n = s_Boolean -> [Schema0 EXCEPT !.Type = <<"boolean">>]
      [] n \in {s_String, s_ID} -> [Schema0 EXCEPT !.Type = <<"string">>]
      [] n \in RootNames \/ HasPrefix(n, <<"_", "_">>) -> [Schema0 EXCEPT !.Type = <<"object">>]
      [] OTHER ->
           IF n \in DOMAIN Types
              /\ Types[n].Kind \in {"OBJECT", "INPUT_OBJECT", "ENUM", "UNION", "INTERFACE"}
           THEN [Schema0 EXCEPT !.Ref = <<"#/components/schemas/">> \o n]
           ELSE [Schema0 EXCEPT !.Type = <<"string">>]

\* the schema C14 gives a type reference
RECURSIVE MappedSchema(_)
MappedSchema(t) ==
    IF t.Elem # Nil
    THEN [Schema0 EXCEPT !.Type = <<"array">>, !.Items = <<MappedSchema(t.Elem[1])>>]
    ELSE NamedSchema(t.NamedType)

\* C14: convertFieldType maps Int, Float, String, Boolean and ID to
\* (integer,int32), (number,double), string, boolean and string, a list to an array
\* of the mapping of its element, a declared object, input, enum, union or interface
\* type to a $ref, a root operation type or introspection name to {type: object},
\* and any other name to {type: string}.
C14_ConvertFieldTypeTotal ==
    c_schema # Nil => \A t \in TypeRefs : convertFieldType(t) = MappedSchema(t)

\* a returned document of a schema that declares an enum, a union, an interface and
\* a custom scalar, with a list query answered by an array of $ref
C14_Witness ==
    /\ LastOk
    /\ {"ENUM", "UNION", "INTERFACE", "INPUT_OBJECT", "SCALAR", "OBJECT"}
         \ {Types[n].Kind : n \in DOMAIN Types} \subseteq {"INPUT_OBJECT"}
    /\ s_UUID \in DOMAIN Types
    /\ HasOp(LastDoc, config.PathPrefix \o <<"/">> \o s_users, "Get")
    /\ JsonResponse(OpAt(LastDoc, config.PathPrefix \o <<"/">> \o s_users, "Get"))
         = MappedSchema(ListOfNN(NamedNN(s_User)))

(***************************************************************************)
(* C15                                                                     *)
(***************************************************************************)
\* the words Convert pluralizes for the schema in hand: the lower-cased names of its
\* types and the names of its Query fields
PluralizedWords ==
    {ToLower(n) : n \in {x \in DOMAIN Types : ~isBuiltInType(x)}}
    \cup {QueryFields[k].Name : k \in DOMAIN QueryFields}

\* w is pluralized by the default-suffix rule of the default configuration
DefaultRuleWord(w) ==
    /\ w # <<>>
    /\ \A x \in {<<"s">>, <<"x">>, <<"z">>, <<"c", "h">>, <<"s", "h">>} : ~HasSuffix(w, x)
    /\ ~(Len(w) > 1 /\ w[Len(w)] = "y" /\ w[Len(w) - 1] \notin {"a", "e", "i", "o", "u"})

\* C15: with the default configuration and no custom table, singularize(pluralize(w))
\* is w for every word w that pluralize handles by the default-suffix rule.
C15_SingularizeInvertsDefaultPlural ==
    (c_schema # Nil /\ config = DefaultConfig) =>
        \A w \in PluralizedWords :
            DefaultRuleWord(w) => singularize(<<>>, pluralize(<<>>, w)) = w

(***************************************************************************)
(* C16                                                                     *)
(***************************************************************************)
\* the sequence fs in the order p of its indices
Permuted(fs, p) == [i \in DOMAIN fs |-> fs[p[i]]]

\* the promoted patterns of a schema whose Query fields are qs and whose Mutation
\* fields are ms, in these orders
PromotedOf(ord, qs, ms) ==
    LET patterns == mutationPassOf(queryPassOf(ord, qs), ms)
    IN  [r \in {x \in DOMAIN patterns : promoted(patterns[x])} |-> patterns[r]]

\* C16: permuting the fields of the Query type and of the Mutation type leaves the
\* promoted patterns unchanged, each with the same resource name, plural, bound
\* type and operation flags.
C16_DetectionOrderInsensitive ==
    Detected =>
        \A ord \in PluralOrders :
            \A qp \in Perms(DOMAIN QueryFields), mp \in Perms(DOMAIN MutationFields) :
                PromotedOf(ord, Permuted(QueryFields, qp), Permuted(MutationFields, mp))
                  = PromotedOf(ord, QueryFields, MutationFields)

(***************************************************************************)
(* C17                                                                     *)
(***************************************************************************)
\* the names of the component schemas of a schema text
ComponentNames(ast) ==
    {n \in DOMAIN ast.Types :
        /\ n \notin RootNames /\ ~HasPrefix(n, <<"_", "_">>)
        /\ ast.Types[n].Kind \in {"OBJECT", "INPUT_OBJECT", "ENUM", "UNION", "INTERFACE"}}

\* C17: each of two Convert calls whose steps interleave on one Converter returns
\* the document of its own schema text, as it does when run alone: the info block
\* is built from its own text and the component schemas are those of its own types.
C17_InterleavedCallsIndependent ==
    \A i \in OkCalls :
        /\ DocOf(i).Info = buildInfo(returned[i].source.lines)
        /\ DOMAIN DocOf(i).Schemas = ComponentNames(AstOf(i))

(***************************************************************************)
(* C18                                                                     *)
(***************************************************************************)
\* C18: from the parse to the return of a call, the schema AST is as the parser
\* returned it: every type definition keeps its field names, field types,
\* arguments and directives through every pass.
C18_AstReadOnly ==
    schema # Nil => schema = source.ast

(***************************************************************************)
(* C19                                                                     *)
(***************************************************************************)
\* the root fields of the schema in hand, each with the operation ids under which
\* the document can hold its operation
RootOperations ==
    {[field |-> QueryFields[k],
      ids |-> {QueryFields[k].Name,
               <<"l", "i", "s", "t">> \o capitalize(QueryFields[k].Name),
               <<"g", "e", "t">> \o capitalize(QueryFields[k].Name)}] :
        k \in {x \in DOMAIN QueryFields : ~HasPrefix(QueryFields[x].Name, <<"_", "_">>)}}
    \cup {[field |-> MutationFields[k], ids |-> {MutationFields[k].Name}] :
            k \in DOMAIN MutationFields}
    \cup {[field |-> SubscriptionFields[k],
           ids |-> {<<"s", "u", "b", "s", "c", "r", "i", "b", "e">>
                    \o capitalize(SubscriptionFields[k].Name)}] :
            k \in DOMAIN SubscriptionFields}

\* the reasons of the @deprecated directives of f: none, or the one given
DeprecationReasons(f) ==
    {f.Directives[d].Arguments[a].Raw :
        <<d, a>> \in {x \in (DOMAIN f.Directives) \X (1..1) :
                        /\ f.Directives[x[1]].Name = "deprecated"
                        /\ x[2] \in DOMAIN f.Directives[x[1]].Arguments
                        /\ f.Directives[x[1]].Arguments[x[2]].Name = "reason"}}

IsDeprecated(f) == \E d \in DOMAIN f.Directives : f.Directives[d].Name = "deprecated"

\* C19: every root Query, Mutation or Subscription field that carries @deprecated
\* has an operation in the document with deprecated: true and, when a reason is
\* given, the summary "DEPRECATED: <reason>", whether the field is emitted 1:1 or
\* consolidated into a pattern as its list or get operation.
C19_DeprecatedRootFields ==
    LastOk =>
        \A r \in RootOperations :
            IsDeprecated(r.field) =>
                \E p \in DOMAIN LastDoc.Paths : \E meth \in Methods :
                    /\ LastDoc.Paths[p][meth] # Nil
                    /\ LastDoc.Paths[p][meth][1].OperationID \in r.ids
                    /\ LastDoc.Paths[p][meth][1].Deprecated
                    /\ \A reason \in DeprecationReasons(r.field) :
                          LastDoc.Paths[p][meth][1].Summary = <<"DEPRECATED: ">> \o reason

(***************************************************************************)
(* C20                                                                     *)
(***************************************************************************)
\* the lines of a schema text before its first declaration
LeadingLines(lines) ==
    LET isDecl(l) == \E k \in DOMAIN declKeywords : HasPrefix(TrimSpace(l), <<declKeywords[k]>>)
        first == IF \E i \in DOMAIN lines : isDecl(lines[i])
                 THEN CHOOSE i \in DOMAIN lines :
                        isDecl(lines[i]) /\ \A j \in 1..(i - 1) : ~isDecl(lines[j])
                 ELSE Len(lines) + 1
    IN  SubSeq(lines, 1, first - 1)

\* the leading description block of a schema text, line by line: the content of a
\* triple-quoted block on one line or on several, or of contiguous comment lines
LeadingBlock(lines) ==
    LET ls == LeadingLines(lines)
        isTQ(l) == HasPrefix(TrimSpace(l), <<TQ>>)
        isComment(l) == HasPrefix(TrimSpace(l), <<"#">>)
    IN  IF ls = <<>> THEN <<>>
        ELSE IF isTQ(ls[1])
        THEN IF CountTQ(ls[1]) >= 2
             THEN <<TrimSpace(TrimSuffix(TrimPrefix(TrimSpace(ls[1]), <<TQ>>), <<TQ>>))>>
             ELSE LET close == CHOOSE i \in 2..(Len(ls) + 1) :
                                 /\ i = Len(ls) + 1 \/ isTQ(ls[i])
                                 /\ \A j \in 2..(i - 1) : ~isTQ(ls[j])
                  IN  [i \in 1..(close - 2) |-> TrimSpace(ls[i + 1])]
        ELSE IF isComment(ls[1])
        THEN LET last == CHOOSE i \in DOMAIN ls :
                            /\ \A j \in 1..i : isComment(ls[j])
                            /\ i = Len(ls) \/ ~isComment(ls[i + 1])
             IN  [i \in 1..last |-> TrimSpace(TrimPrefix(TrimSpace(ls[i]), <<"#">>))]
        ELSE <<>>

\* C20: with no title override, the first line of the leading description block of
\* the schema text (a triple-quoted block on one or several lines, or contiguous
\* comment lines) is Info.title, and the remaining lines are the description,
\* followed by the footer "Converted from GraphQL (<version>)".
C20_SchemaDescription ==
    \A i \in OkCalls :
        LET block == LeadingBlock(returned[i].source.lines)
            rest == TrimSpace(JoinLines(Tail(block)))
            footer == <<"Converted from GraphQL (">> \o config.Version \o <<")">>
        IN  (config.Title = DefaultTitle /\ block # <<>>) =>
                /\ DocOf(i).Info.Title = block[1]
                /\ DocOf(i).Info.Description =
                       IF rest = <<>> THEN footer ELSE rest \o <<"\n\n---\n\n">> \o footer

(***************************************************************************)
(* C21                                                                     *)
(***************************************************************************)
\* the Mutation fields named <prefix>+Capitalize(r)
NamedMutations(prefix, r) ==
    {k \in DOMAIN MutationFields : MutationFields[k].Name = prefix \o capitalize(r)}

\* the item path of the promoted resource r
ItemPath(r) == config.PathPrefix \o <<"/">> \o restPatterns[r].Plural \o <<"/", "{", "i", "d", "}">>

\* the property names of the JSON request body of op; none when op has no body
BodyProperties(op) ==
    IF op.RequestBody = Nil THEN {}
    ELSE DOMAIN op.RequestBody[1].Content["application/json"].Schema[1].Properties

ArgumentNames(f) == {f.Arguments[a].Name : a \in DOMAIN f.Arguments}

\* C21: for a promoted pattern the update mutation is PUT /{plural}/{id} with the
\* required string path parameter id first and all the mutation's arguments in the
\* request body; the delete mutation is DELETE /{plural}/{id}, with no request body
\* and the path parameter id as its only parameter when its only argument is id.
C21_UpdateAndDeleteOperations ==
    LastOk =>
        \A r \in DOMAIN restPatterns :
            /\ \A k \in NamedMutations(config.CRUDPrefixUpdate, r) :
                  /\ HasOp(LastDoc, ItemPath(r), "Put")
                  /\ LET op == OpAt(LastDoc, ItemPath(r), "Put")
                     IN  /\ op.OperationID = MutationFields[k].Name
                         /\ op.Parameters # <<>>
                         /\ op.Parameters[1].Name = <<"i", "d">>
                         /\ op.Parameters[1].In = <<"path">>
                         /\ op.Parameters[1].Required
                         /\ op.Parameters[1].Schema = <<TypeSchema("string")>>
                         /\ BodyProperties(op) = ArgumentNames(MutationFields[k])
            /\ \A k \in NamedMutations(config.CRUDPrefixDelete, r) :
                  /\ HasOp(LastDoc, ItemPath(r), "Delete")
                  /\ LET op == OpAt(LastDoc, ItemPath(r), "Delete")
                     IN  /\ op.OperationID = MutationFields[k].Name
                         /\ ArgumentNames(MutationFields[k]) = {<<"i", "d">>} =>
                               /\ op.RequestBody = <<>>
                               /\ Len(op.Parameters) = 1
                               /\ op.Parameters[1].Name = <<"i", "d">>
                               /\ op.Parameters[1].In = <<"path">>

\* a conversion that emitted both an update and a delete-by-id operation of a pattern
C21_Witness ==
    /\ LastOk
    /\ \E r \in DOMAIN restPatterns :
          /\ NamedMutations(config.CRUDPrefixUpdate, r) # {}
          /\ \E k \in NamedMutations(config.CRUDPrefixDelete, r) :
                ArgumentNames(MutationFields[k]) = {<<"i", "d">>}
          /\ HasOp(LastDoc, ItemPath(r), "Put")
          /\ HasOp(LastDoc, ItemPath(r), "Delete")

(***************************************************************************)
(* C22                                                                     *)
(***************************************************************************)
\* the names the pattern loops mark as processed, for Query and for Mutation fields
ConsolidatedQueries ==
    {restPatterns[r].Plural : r \in {x \in DOMAIN restPatterns : "list" \in restPatterns[x].Operations}}
    \cup {r \in DOMAIN restPatterns : "get" \in restPatterns[r].Operations}
ConsolidatedMutations ==
    {m.prefix \o capitalize(r) :
        <<r, m>> \in {x \in (DOMAIN restPatterns) \X PatternMutations :
                        x[2].op \in restPatterns[x[1]].Operations}}

\* the operations one conversion writes, each with its source, path and method;
\* the CustomPlurals map is iterated in the order ord
Writes(ord) ==
    LET at(p) == config.PathPrefix \o p
        collection(r) == <<"/">> \o restPatterns[r].Plural
        item(r) == collection(r) \o <<"/", "{", "i", "d", "}">>
    IN  {[source |-> <<"pattern", r, "list">>, path |-> at(collection(r)), method |-> "Get"] :
            r \in {x \in DOMAIN restPatterns : "list" \in restPatterns[x].Operations}}
        \cup
        {[source |-> <<"pattern", r, "get">>, path |-> at(item(r)), method |-> "Get"] :
            r \in {x \in DOMAIN restPatterns : "get" \in restPatterns[x].Operations}}
        \cup
        {[source |-> <<"pattern", x[1], x[2].op>>, path |-> at(collection(x[1]) \o x[2].item),
          method |-> x[2].method] :
            x \in {y \in (DOMAIN restPatterns) \X PatternMutations :
                     /\ y[2].op \in restPatterns[y[1]].Operations
                     /\ \E k \in DOMAIN MutationFields :
                           MutationFields[k].Name = y[2].prefix \o capitalize(y[1])}}
        \cup
        {[source |-> <<"Query", QueryFields[k].Name>>,
          path |-> at(<<"/">> \o QueryFields[k].Name), method |-> "Get"] :
            k \in {x \in DOMAIN QueryFields :
                     /\ ~HasPrefix(QueryFields[x].Name, <<"_", "_">>)
                     /\ QueryFields[x].Name \notin ConsolidatedQueries}}
        \cup
        {[source |-> <<"Mutation", MutationFields[k].Name>>,
          path |-> at(<<"/">> \o MutationFields[k].Name), method |-> "Post"] :
            k \in {x \in DOMAIN MutationFields :
                     MutationFields[x].Name \notin ConsolidatedMutations}}
        \cup
        {[source |-> <<"Subscription", SubscriptionFields[k].Name>>,
          path |-> buildSubscriptionPath(SubscriptionFields[k]), method |-> "Get"] :
            k \in {x \in DOMAIN SubscriptionFields :
                     ~HasPrefix(SubscriptionFields[x].Name, <<"_", "_">>)}}
        \cup
        {[source |-> <<"sub-resource", x[1], Types[x[1]].Fields[x[2]].Name>>,
          path |-> subResourcePath(ord, Types[x[1]], Types[x[1]].Fields[x[2]]),
          method |-> "Get"] :
            x \in {y \in subResourceTypes \X (1..8) :
                     /\ c_schema[1].Query # <<>>
                     /\ y[2] \in DOMAIN Types[y[1]].Fields
                     /\ isSubResource(Types[y[1]].Fields[y[2]])}}

\* C22: within one conversion no operation written to the document is overwritten:
\* two different sources (root Query, Mutation and Subscription fields, pattern
\* operations, sub-resource list fields) never write the same method of the same
\* path, a Query field and a Subscription field of the same name included.
C22_NoWriteOverwritten ==
    LastOk =>
        \A ord \in PluralOrders : \A w1, w2 \in Writes(ord) :
            (w1.path = w2.path /\ w1.method = w2.method) => w1.source = w2.source

(***************************************************************************)
(* C23                                                                     *)
(***************************************************************************)
\* the plural of word by the first matching rule: the longest matching suffix of the
\* custom table, the ES suffixes, the IES suffix after a non-vowel, the default suffix
FirstRulePlural(word) ==
    LET matching == {s \in DOMAIN config.CustomPlurals : HasSuffix(word, s)}
        longest == CHOOSE s \in matching : \A t \in matching : Len(t) <= Len(s)
    IN  IF matching # {}
        THEN SubSeq(word, 1, Len(word) - Len(longest)) \o config.CustomPlurals[longest]
        ELSE IF \E k \in DOMAIN config.PluralizeSuffixesES :
                    HasSuffix(word, config.PluralizeSuffixesES[k])
        THEN word \o <<"e", "s">>
        ELSE IF /\ config.PluralizeSuffixIES # <<>>
                /\ HasSuffix(word, config.PluralizeSuffixIES)
                /\ Len(word) > 1
                /\ word[Len(word) - 1] \notin {"a", "e", "i", "o", "u", "A", "E", "I", "O", "U"}
        THEN SubSeq(word, 1, Len(word) - 1) \o <<"i", "e", "s">>
        ELSE word \o config.PluralizeDefaultSuffix

\* C23: pluralize(word) applies the first matching rule in this order: the suffix of
\* the custom table that matches the end of the word (the longest one when several
\* match) is replaced by its replacement; else a word ending in an ES suffix gets
\* "es"; else a word ending in the IES suffix after a non-vowel has its last letter
\* replaced by "ies"; else the default suffix is appended.
C23_PluralizeFirstMatchingRule ==
    c_schema # Nil =>
        \A ord \in PluralOrders : \A w \in PluralizedWords :
            pluralize(ord, w) = FirstRulePlural(w)

(***************************************************************************)
(* C24                                                                     *)
(***************************************************************************)
\* the texts Convert hands to splitDescription for the schema in hand
SplitTexts ==
    {addFieldNamePrefix(f.Name, f.Description) :
        f \in {QueryFields[k] : k \in DOMAIN QueryFields}
              \cup {MutationFields[k] : k \in DOMAIN MutationFields}
              \cup {SubscriptionFields[k] : k \in DOMAIN SubscriptionFields}}

Delimiters ==
    {<<".", " ">>, <<"!", " ">>, <<"?", " ">>, <<":", " ">>, <<";", " ">>, <<" ", "-", " ">>}

\* the occurrences of delimiters in text: <<position of the first character, delimiter>>
Occurrences(text) ==
    {x \in (DOMAIN text) \X Delimiters :
        /\ x[1] + Len(x[2]) - 1 <= Len(text)
        /\ SubSeq(text, x[1], x[1] + Len(x[2]) - 1) = x[2]}

\* the earliest occurrence by character offset
Earliest(text) ==
    CHOOSE x \in Occurrences(text) : \A y \in Occurrences(text) : x[1] <= y[1]

\* C24 as stated: the split is at the earliest delimiter, the summary is the trimmed
\* text before the delimiter with no character of the delimiter, the description is
\* the full trimmed text, and without a delimiter both are the full text.
C24_SummaryExcludesDelimiter ==
    c_schema # Nil =>
        \A text \in SplitTexts :
            splitDescription(text) =
                IF Occurrences(text) = {} THEN <<text, text>>
                ELSE <<TrimSpace(SubSeq(text, 1, Earliest(text)[1] - 1)), TrimSpace(text)>>

\* C24 (amended): splitDescription(text) splits at the earliest occurrence of any of
\* the delimiters; the summary is the trimmed text before the delimiter, together
\* with the punctuation mark of the delimiter when it is ". ", "! ", "? ", ": " or
\* "; " and without any character of it when it is " - "; the description is the
\* full trimmed text; without a delimiter both are the full text.
C24_SummaryKeepsPunctuation ==
    c_schema # Nil =>
        \A text \in SplitTexts :
            splitDescription(text) =
                IF Occurrences(text) = {} THEN <<text, text>>
                ELSE LET at == Earliest(text)[1]
                         mark == IF Earliest(text)[2] = <<" ", "-", " ">> THEN <<>>
                                 ELSE <<text[at]>>
                     IN  <<TrimSpace(SubSeq(text, 1, at - 1) \o mark), TrimSpace(text)>>

\* a returned document with an operation whose summary was cut at a punctuation
\* delimiter that comes before a dash delimiter
C24_Witness ==
    /\ LastOk
    /\ \E text \in SplitTexts :
          /\ Cardinality(Occurrences(text)) > 1
          /\ Earliest(text)[2] # <<" ", "-", " ">>
          /\ \E p \in DOMAIN LastDoc.Paths :
                /\ LastDoc.Paths[p]["Get"] # <<>>
                /\ LastDoc.Paths[p]["Get"][1].Summary = splitDescription(text)[1]
                /\ LastDoc.Paths[p]["Get"][1].Description = TrimSpace(text)

(***************************************************************************)
(* C25                                                                     *)
(***************************************************************************)
\* the interface types of a schema
InterfaceTypes(ast) ==
    {n \in DOMAIN ast.Types : ~HasPrefix(n, <<"_", "_">>) /\ ast.Types[n].Kind = "INTERFACE"}

C26_DeprecatedProperties ==
    \A i \in OkCalls : \A n \in SchemaTypes(AstOf(i)) :
        \A k \in DOMAIN AstOf(i).Types[n].Fields :
            LET f == AstOf(i).Types[n].Fields[k]
            IN  (IsDeprecated(f) /\ ~IsLeftOut(f)) =>
                    /\ n \in DOMAIN DocOf(i).Schemas
                    /\ KeyOf(f) \in DOMAIN DocOf(i).Schemas[n].Properties
                    /\ DocOf(i).Schemas[n].Properties[KeyOf(f)].Deprecated

(***************************************************************************)
(* C27                                                                     *)
(***************************************************************************)
\* the component names the $ref of a schema and of the schemas inside it point to
RECURSIVE RefTargets(_)
RefTargets(s) ==
    (IF s.Ref # <<>> THEN {Tail(s.Ref)} ELSE {})
    \cup (IF s.Items # <<>> THEN RefTargets(s.Items[1]) ELSE {})
    \cup UNION {RefTargets(s.Properties[k]) : k \in DOMAIN s.Properties}
    \cup UNION {RefTargets(s.OneOf[k]) : k \in DOMAIN s.OneOf}

\* the schemas an operation holds: of its parameters, its request body, its responses
OperationSchemas(op) ==
    {op.Parameters[k].Schema[1] : k \in {x \in DOMAIN op.Parameters : op.Parameters[x].Schema # <<>>}}
    \cup (IF op.RequestBody = <<>> THEN {}
          ELSE {op.RequestBody[1].Content[m].Schema[1] :
                  m \in {x \in DOMAIN op.RequestBody[1].Content :
                           op.RequestBody[1].Content[x].Schema # <<>>}})
    \cup {op.Responses[x[1]].Content[x[2]].Schema[1] :
            x \in {y \in (DOMAIN op.Responses) \X {"application/json", "text/event-stream"} :
                     /\ y[2] \in DOMAIN op.Responses[y[1]].Content
                     /\ op.Responses[y[1]].Content[y[2]].Schema # <<>>}}

\* every component name a $ref of the document points to
DocumentRefTargets(doc) ==
    UNION {RefTargets(doc.Schemas[n]) : n \in DOMAIN doc.Schemas}
    \cup UNION {RefTargets(s) :
                  s \in UNION {OperationSchemas(doc.Paths[x[1]][x[2]][1]) :
                                 x \in {y \in (DOMAIN doc.Paths) \X Methods :
                                          doc.Paths[y[1]][y[2]] # <<>>}}}

\* C27: every $ref anywhere in the returned document (component properties, union
\* members, response schemas of 1:1, pattern and sub-resource operations, request
\* bodies, parameters) names a key of components.schemas of the same document.
C27_NoDanglingRef ==
    \A i \in OkCalls : DocumentRefTargets(DocOf(i)) \subseteq DOMAIN DocOf(i).Schemas

(***************************************************************************)
(* C28                                                                     *)
(***************************************************************************)
\* the names between braces in a path key
Placeholders(path) ==
    {SubSeq(path, x[1] + 1, x[2] - 1) :
        x \in {y \in (DOMAIN path) \X (DOMAIN path) :
                 /\ y[1] < y[2]
                 /\ path[y[1]] = "{" /\ path[y[2]] = "}"
                 /\ \A k \in (y[1] + 1)..(y[2] - 1) : path[k] \notin {"{", "}"}}}

\* the parameters of op that are path parameters
PathParameters(op) == {k \in DOMAIN op.Parameters : op.Parameters[k].In = <<"path">>}

\* C28: for every operation of the returned document the placeholder names of its
\* path key are exactly the names of its path parameters, and each path parameter is
\* required; pattern get, update and delete operations, sub-resource operations and
\* subscription operations included.
C28_PathParametersMatchPlaceholders ==
    \A i \in OkCalls : \A p \in DOMAIN DocOf(i).Paths : \A m \in Methods :
        DocOf(i).Paths[p][m] # <<>> =>
            LET op == DocOf(i).Paths[p][m][1]
            IN  /\ Placeholders(p) = {op.Parameters[k].Name : k \in PathParameters(op)}
                /\ \A k \in PathParameters(op) : op.Parameters[k].Required

(***************************************************************************)
(* C29                                                                     *)
(***************************************************************************)
\* the fields of type n of a schema that are kept in its component schema
KeptFields(ast, n) ==
    {k \in DOMAIN ast.Types[n].Fields : ~IsLeftOut(ast.Types[n].Fields[k])}

\* C29: in every object or input-object component schema distinct kept fields have
\* distinct property keys (the key f+"Id" of a reference-flattened field is the key
\* of no other field), so the number of properties is the number of kept fields, and
\* the required list has no duplicate and only names that are property keys.
C29_DistinctPropertyKeys ==
    \A i \in OkCalls : \A n \in SchemaTypes(AstOf(i)) :
        LET fs == AstOf(i).Types[n].Fields
            kept == KeptFields(AstOf(i), n)
            s == DocOf(i).Schemas[n]
        IN  /\ \A j, k \in kept : j # k => KeyOf(fs[j]) # KeyOf(fs[k])
            /\ Cardinality(DOMAIN s.Properties) = Cardinality(kept)
            /\ \A a, b \in DOMAIN s.Required : a # b => s.Required[a] # s.Required[b]
            /\ \A a \in DOMAIN s.Required : s.Required[a] \in DOMAIN s.Properties

(***************************************************************************)
(* C30                                                                     *)
(***************************************************************************)
\* the path of the GET operation the Query field named n is mapped to: the list or
\* the get operation of the promoted pattern that takes it in, or else /{n}
QueryPathOf(n) ==
    LET lists == {r \in DOMAIN restPatterns :
                    "list" \in restPatterns[r].Operations /\ restPatterns[r].Plural = n}
        gets == {r \in DOMAIN restPatterns : "get" \in restPatterns[r].Operations /\ r = n}
    IN  IF lists # {}
        THEN config.PathPrefix \o <<"/">> \o n
        ELSE IF gets # {}
        THEN config.PathPrefix \o <<"/">> \o restPatterns[n].Plural \o <<"/", "{", "i", "d", "}">>
        ELSE config.PathPrefix \o <<"/">> \o n

\* C30: no argument of a root Query field is lost: every argument of every
\* non-introspection Query field is a parameter of the GET operation the field is
\* mapped to, emitted 1:1 or consolidated as the list or get operation of a pattern.
C30_QueryArgumentsKept ==
    LastOk =>
        \A k \in DOMAIN QueryFields :
            LET f == QueryFields[k]
            IN  ~HasPrefix(f.Name, <<"_", "_">>) =>
                    /\ HasOp(LastDoc, QueryPathOf(f.Name), "Get")
                    /\ ArgumentNames(f) \subseteq
                         {OpAt(LastDoc, QueryPathOf(f.Name), "Get").Parameters[j].Name :
                            j \in DOMAIN OpAt(LastDoc, QueryPathOf(f.Name), "Get").Parameters}

=============================================================================
